---- MODULE Spec2Model ----
(***************************************************************************)
(* Model of the email advising backend: the text pipeline                  *)
(* (text_processing.py), the ranking and decision engine (advisor.py) and  *)
(* the ingest / sync handlers of the HTTP layer (api.py).                  *)
(*                                                                         *)
(* Texts.  A text is a sequence of chunks that the real string holds       *)
(* separated by single blanks.  A chunk is a word ("Drop", "class"), a     *)
(* sentence terminator (".", "!", "?") or other punctuation (",").         *)
(*                                                                         *)
(* Numbers.  Confidences and similarity signals are exact fractions held   *)
(* as integers in units of 1/Unit.  Unit is a multiple of every            *)
(* denominator that can occur: set sizes up to 15 (three content words,    *)
(* their synonyms and their bigrams), the halving of the coverage signal,  *)
(* the tenths of the blend weights, the fifths of the 0.6 penalty and the  *)
(* hundredths of the thresholds.  The code computes in binary floating     *)
(* point; the one place where that changes a decision on these values is   *)
(* the lead of the best match over the second when it equals the           *)
(* ambiguity gap, which lead_roundings models as either outcome.           *)
(***************************************************************************)
EXTENDS Integers, Sequences, FiniteSets, TLC

VARIABLES
    kb,          \* EmailAdvisor.knowledge_base: the ordered articles
    settings,    \* EmailAdvisor.confidence_settings
    pc,          \* position of the engine: "idle", "ranked", "responded"
    query,       \* the query text of the last call
    tfidf,       \* the TF-IDF scores the vectorizer gave for that query
    ranked,      \* the list returned by the last rank_articles call
    call,        \* the other inputs and the locals of the last process_query call
    response,    \* the AdvisorResponse returned by the last process_query call
    emails,          \* the rows of the emails table, in id order
    email_settings,  \* the rows of the email_settings table (none or one)
    gmail_token,     \* the stored Gmail OAuth token file
    mailbox,         \* the unread messages of the Gmail inbox, in listing order
    outbox,          \* the messages sent through the Gmail API, oldest first
    results,         \* history: results[i] is what process_query returned for emails[i]
    http,            \* the response to the request just handled (sync_emails, send_email_reply)
    threads,         \* the process_query calls in flight, one per caller thread
    heap,            \* the dict objects: the callers' mappings and the calls' copies
    sessions,        \* the HTTP requests in flight: handler, position, settings row held
    blend,           \* one run of the confidence blend: its signals and its result
    augmented        \* one call of augment_tokens: its tokens and the list returned

advisorVars == <<kb, settings, pc, query, tfidf, ranked, call, response>>

apiVars == <<emails, email_settings, gmail_token, mailbox, outbox, results, http>>

threadVars == <<threads, heap, sessions>>

vars == <<kb, settings, pc, query, tfidf, ranked, call, response,
          emails, email_settings, gmail_token, mailbox, outbox, results, http,
          threads, heap, sessions, blend, augmented>>

-----------------------------------------------------------------------------
(* Bounds of the model *)

MaxQueryLen == 3
MaxArticles == 2
TfidfSteps == 1
MaxEmails == 1
MaxMessages == 1
MaxTokens == 4

-----------------------------------------------------------------------------
(* Fixed-point arithmetic *)

Unit == 360360 * 1000

Frac(a, b) == a * (Unit \div b)

Pct(p) == p * (Unit \div 100)

Max2(a, b) == IF a >= b THEN a ELSE b

Min2(a, b) == IF a <= b THEN a ELSE b

MaxOf(S) == CHOOSE m \in S : \A x \in S : x <= m

Range(s) == {s[i] : i \in DOMAIN s}

RECURSIVE SetToSeq(_)
SetToSeq(S) ==
    IF S = {} THEN <<>>
    ELSE LET x == CHOOSE y \in S : TRUE IN <<x>> \o SetToSeq(S \ {x})

RECURSIVE Flatten(_)
Flatten(ss) == IF ss = <<>> THEN <<>> ELSE Head(ss) \o Flatten(Tail(ss))

-----------------------------------------------------------------------------
(* text_processing.py *)

STOPWORDS ==
    {"a", "an", "and", "are", "as", "at", "be", "but", "by", "for", "from",
     "how", "i", "in", "is", "it", "my", "of", "on", "or", "so", "that",
     "the", "to", "we", "what", "when", "where", "which", "who", "will",
     "with", "you", "your"}

TOKEN_SYNONYMS(token) ==
    CASE token = "appointment"  -> {"meeting", "advising", "schedule"}
      [] token = "appointments" -> {"meeting", "schedule"}
      [] token = "book"         -> {"schedule", "appointment"}
      [] token = "cancel"       -> {"withdraw", "drop"}
      [] token = "course"       -> {"class"}
      [] token = "courses"      -> {"classes"}
      [] token = "close"        -> {"closes", "deadline", "end"}
      [] token = "closes"       -> {"close", "deadline", "ends"}
      [] token = "closing"      -> {"close", "deadline", "end"}
      [] token = "drop"         -> {"withdraw", "withdrawal", "remove"}
      [] token = "dropping"     -> {"withdraw", "withdrawal"}
      [] token = "enroll"       -> {"register", "registration"}
      [] token = "enrolling"    -> {"register", "registration"}
      [] token = "enrollment"   -> {"register", "registration"}
      [] token = "deadline"     -> {"close", "closing"}
      [] token = "financial"    -> {"aid"}
      [] token = "meeting"      -> {"appointment"}
      [] token = "register"     -> {"enroll", "registration"}
      [] token = "registration" -> {"register", "enroll"}
      [] token = "remove"       -> {"withdraw", "drop"}
      [] token = "schedule"     -> {"appointment", "meeting"}
      [] token = "transcript"   -> {"record", "records"}
      [] token = "withdraw"     -> {"drop", "withdrawal"}
      [] token = "withdrawal"   -> {"withdraw", "drop"}
      [] OTHER                  -> {}

Terminators == {".", "!", "?"}

Punctuation == Terminators \cup {",", ";", ":", "-"}

\* text.lower() on one chunk: the capitalised words the model's texts use.
Lower(chunk) ==
    CASE chunk = "How"    -> "how"
      [] chunk = "Drop"   -> "drop"
      [] chunk = "Class"  -> "class"
      [] chunk = "Course" -> "course"
      [] OTHER            -> chunk

\* normalize_text on one chunk: lower-cased, every run of characters outside
\* [a-z0-9] turned into a blank (so a punctuation chunk leaves nothing).
normalize_chunk(chunk) == IF chunk \in Punctuation THEN "" ELSE Lower(chunk)

normalize_text(text) ==
    SelectSeq([i \in DOMAIN text |-> normalize_chunk(text[i])], LAMBDA c : c # "")

tokenize(text) == SelectSeq(normalize_text(text), LAMBDA t : t \notin STOPWORDS)

RECURSIVE AppendNew(_, _)
AppendNew(acc, items) ==
    IF items = <<>> THEN acc
    ELSE AppendNew(IF Head(items) \in Range(acc) THEN acc ELSE Append(acc, Head(items)),
                   Tail(items))

iterate_bigrams(tokens) ==
    [i \in 1..(IF Len(tokens) = 0 THEN 0 ELSE Len(tokens) - 1) |->
        <<tokens[i], tokens[i + 1]>>]

augment_tokens(tokens) ==
    LET unique   == AppendNew(<<>>, tokens)
        synonyms == Flatten([i \in DOMAIN tokens |-> SetToSeq(TOKEN_SYNONYMS(tokens[i]))])
        pairs    == iterate_bigrams(tokens)
        bigrams  == [i \in DOMAIN pairs |-> pairs[i][1] \o "_" \o pairs[i][2]]
    IN  AppendNew(AppendNew(unique, synonyms), bigrams)

\* The orders in which a for loop may visit a set: the synonyms of a token
\* are a Python set of str, whose iteration order follows the string hashes
\* of the run
Orderings(S) == {o \in [1..Cardinality(S) -> S] : Range(o) = S}

\* Lines 108-112: the synonyms in the order the two loops visit them
RECURSIVE synonym_visits(_)
synonym_visits(tokens) ==
    IF tokens = <<>> THEN {<<>>}
    ELSE {first \o rest : first \in Orderings(TOKEN_SYNONYMS(Head(tokens))),
                          rest \in synonym_visits(Tail(tokens))}

bigrams_of(tokens) ==
    LET pairs == iterate_bigrams(tokens)
    IN  [i \in DOMAIN pairs |-> pairs[i][1] \o "_" \o pairs[i][2]]

\* Mutant of augmentations: the bigrams are appended without looking at seen
augmentations_with_every_bigram(tokens) ==
    {AppendNew(AppendNew(<<>>, tokens), synonyms) \o bigrams_of(tokens) :
        synonyms \in synonym_visits(tokens)}

\* augment_tokens (lines 98-118) under every iteration order of the synonym
\* sets: the lists a call may return
augmentations(tokens) ==
    {AppendNew(AppendNew(AppendNew(<<>>, tokens), synonyms), bigrams_of(tokens)) :
        synonyms \in synonym_visits(tokens)}

-----------------------------------------------------------------------------
(* The knowledge base.  An article's templates are sequences of parts: a   *)
(* literal piece of text or a {key} placeholder.                           *)

Lit(t) == [kind |-> "lit", text |-> t]

Key(k) == [kind |-> "key", text |-> k]

\* A "{key" that is never closed: a structurally invalid template
Unclosed(k) == [kind |-> "unclosed", text |-> k]

ArtDropClass ==
    [id |-> "drop_class",
     subject |-> <<Lit("Dropping a class")>>,
     response_template |-> <<Lit("Hello "), Key("student_name"), Lit(", drop by "),
                             Key("withdrawal_deadline"), Lit(".")>>,
     utterances |-> << <<"How", "Drop", "class", "?">> >>,
     categories |-> << <<"class">>, <<"drop">> >>,
     metadata |-> <<>>,
     follow_up_questions |-> <<"Which class?">>]

ArtWithdrawal ==
    [id |-> "course_withdrawal",
     subject |-> <<Lit("Withdrawal in "), Key("term")>>,
     response_template |-> <<Lit("Hi "), Key("student_name"), Lit(", see "),
                             Key("advisor_name"), Lit(" in "), Key("office"), Lit(".")>>,
     utterances |-> << <<"drop", "course">>, <<"How", "?">> >>,
     categories |-> << <<"course">> >>,
     metadata |-> [k \in {"office", "term"} |->
                     IF k = "office" THEN "Mudd 315" ELSE "Fall"],
     follow_up_questions |-> <<>>]

ArtClassChange ==
    [id |-> "class_change",
     subject |-> <<Key("term"), Lit(" class change")>>,
     response_template |-> <<Lit("Hello "), Key("student_name"), Lit(".")>>,
     utterances |-> << <<"Drop", "class">>, <<"class", ".", "course">> >>,
     categories |-> << <<"class">>, <<"course">> >>,
     metadata |-> [k \in {"term"} |-> "Spring"],
     follow_up_questions |-> <<"Which section?">>]

ArticlePool == {ArtDropClass, ArtWithdrawal, ArtClassChange}

\* Knowledge bases: ordered, with unique identifiers.
KnowledgeBases ==
    UNION {{s \in [1..n -> ArticlePool] : \A i, j \in 1..n : i # j => s[i] # s[j]} :
           n \in 0..MaxArticles}

-----------------------------------------------------------------------------
(* EmailAdvisor.__init__: the per-article index *)

utterance_token_sets(article) ==
    [i \in DOMAIN article.utterances |-> tokenize(article.utterances[i])]

category_token_sets(article) ==
    Range(augment_tokens(tokenize(Flatten(article.categories))))

-----------------------------------------------------------------------------
(* EmailAdvisor.rank_articles *)

\* re.split(r"[.!?]+", query), keeping the segments with segment.strip()
RECURSIVE SplitSentences(_, _)
SplitSentences(text, cur) ==
    LET done == IF cur = <<>> THEN <<>> ELSE <<cur>>
    IN  IF text = <<>> THEN done
        ELSE IF Head(text) \in Terminators
             THEN done \o SplitSentences(Tail(text), <<>>)
             ELSE SplitSentences(Tail(text), Append(cur, Head(text)))

sentence_tokens(q) ==
    LET segments == SplitSentences(q, <<>>)
        toks     == [i \in DOMAIN segments |-> tokenize(segments[i])]
    IN  IF toks = <<>> THEN <<tokenize(q)>> ELSE toks

\* query_token_sets zipped with augmented_query_sets
query_token_sets(q) ==
    LET kept == SelectSeq(sentence_tokens(q), LAMBDA t : t # <<>>)
    IN  IF kept = <<>>
        THEN <<[qset |-> Range(tokenize(q)),
                aug  |-> Range(augment_tokens(tokenize(q)))]>>
        ELSE [i \in DOMAIN kept |->
                [qset |-> Range(kept[i]), aug |-> Range(augment_tokens(kept[i]))]]

\* Mutant of exact_match: the texts compared instead of their tokens
exact_match_by_text(article, q) ==
    \E utterance \in Range(article.utterances) : q # <<>> /\ utterance = q

exact_match(article, q) ==
    \E ut \in Range(utterance_token_sets(article)) :
        \E sentence \in Range(sentence_tokens(q)) :
            ut # <<>> /\ sentence # <<>> /\ ut = sentence

\* One pass of the inner loop body (lines 171-196) for a query segment and a
\* non-empty utterance: the raw and the augmented Jaccard and coverages.
PairSignals(qs, ut) ==
    LET qset  == qs.qset
        qaug  == qs.aug
        uset  == Range(ut)
        uaug  == Range(augment_tokens(ut))
        iraw  == Cardinality(qset \cap uset)
        iaug  == Cardinality(qaug \cap uaug)
        nq    == Cardinality(qset)
        nu    == Cardinality(uset)
        augOn == qaug # {} /\ uaug # {}
    IN  [sim  |-> Max2(Frac(iraw, Cardinality(qset \cup uset)),
                       IF augOn THEN Frac(iaug, Cardinality(qaug \cup uaug)) ELSE 0),
         qcov |-> IF nq = 0 THEN 0
                  ELSE Max2(Frac(iraw, nq),
                            IF augOn THEN Frac(Min2(iaug, nq), nq) ELSE 0),
         ucov |-> Max2(Frac(iraw, nu),
                       IF augOn THEN Frac(Min2(iaug, nu), nu) ELSE 0)]

\* The three maxima of the double loop over (query segment, utterance).
LexicalSignals(article, q) ==
    LET qs    == query_token_sets(q)
        uts   == SelectSeq(utterance_token_sets(article), LAMBDA ut : ut # <<>>)
        each  == {PairSignals(qs[i], uts[j]) : i \in DOMAIN qs, j \in DOMAIN uts}
    IN  [best_utterance_similarity |-> MaxOf({0} \cup {e.sim : e \in each}),
         best_query_coverage       |-> MaxOf({0} \cup {e.qcov : e \in each}),
         best_utterance_coverage   |-> MaxOf({0} \cup {e.ucov : e \in each})]

category_overlap(article, q) ==
    LET cats == category_token_sets(article)
        augs == {qs.aug : qs \in Range(query_token_sets(q))} \ {{}}
    IN  MaxOf({0} \cup {Frac(Cardinality(a \cap cats), Cardinality(a \cup cats)) :
                          a \in augs})

\* Everything rank_articles derives from the query alone for one article.
ArticleSignals(article, q) ==
    LET sig == LexicalSignals(article, q)
    IN  [exact_match |-> exact_match(article, q),
         best_utterance_similarity |-> sig.best_utterance_similarity,
         best_query_coverage |-> sig.best_query_coverage,
         best_utterance_coverage |-> sig.best_utterance_coverage,
         category_overlap |-> category_overlap(article, q)]

\* Mutant of clamp: the lower bound forgotten
clamp_upper_only(base_confidence) == Min2(base_confidence, Pct(97))

\* Line 228: min(max(base_confidence, 0.05), 0.97)
clamp(base_confidence) == Min2(Max2(base_confidence, Pct(5)), Pct(97))

\* Mutant of blend_confidence: the floor of lines 235-236 is left out
blend_confidence_without_coverage_floor(exact, best_utterance_similarity, best_query_coverage, best_utterance_coverage, tfidf_score, cat_overlap) ==
    IF exact THEN Unit
    ELSE
      LET coverage_signal == (best_query_coverage + best_utterance_coverage) \div 2
          base == (5 * (best_utterance_similarity \div 10))
                  + (2 * (coverage_signal \div 10))
                  + (2 * (tfidf_score \div 10))
                  + (cat_overlap \div 10)
          penalised ==
              IF coverage_signal < Pct(15) /\ best_utterance_similarity < Pct(20)
              THEN 6 * (base \div 10) ELSE base
          clamped == clamp(penalised)
      IN  IF best_utterance_similarity >= Pct(85) THEN Max2(clamped, Pct(92))
          ELSE IF best_utterance_similarity >= Pct(70) THEN Max2(clamped, Pct(85))
          ELSE IF best_utterance_similarity >= Pct(55) /\ coverage_signal >= Pct(35)
               THEN Max2(clamped, Pct(78))
          ELSE clamped

\* Lines 216-236: the blend of the signals into one confidence.
blend_confidence(exact, best_utterance_similarity, best_query_coverage, best_utterance_coverage, tfidf_score, cat_overlap) ==
    IF exact THEN Unit
    ELSE
      LET coverage_signal == (best_query_coverage + best_utterance_coverage) \div 2
          base == (5 * (best_utterance_similarity \div 10))
                  + (2 * (coverage_signal \div 10))
                  + (2 * (tfidf_score \div 10))
                  + (cat_overlap \div 10)
          penalised ==
              IF coverage_signal < Pct(15) /\ best_utterance_similarity < Pct(20)
              THEN 6 * (base \div 10) ELSE base
          clamped == clamp(penalised)
          floor1 ==
              IF best_utterance_similarity >= Pct(85) THEN Max2(clamped, Pct(92))
              ELSE IF best_utterance_similarity >= Pct(70) THEN Max2(clamped, Pct(85))
              ELSE IF best_utterance_similarity >= Pct(55) /\ coverage_signal >= Pct(35)
                   THEN Max2(clamped, Pct(78))
              ELSE clamped
      IN  IF coverage_signal >= Pct(55) /\ cat_overlap >= Pct(10)
             /\ best_utterance_similarity >= Pct(50)
          THEN Max2(floor1, Pct(85)) ELSE floor1

article_confidence(sig, tfidf_score) ==
    blend_confidence(sig.exact_match,
                     sig.best_utterance_similarity,
                     sig.best_query_coverage,
                     sig.best_utterance_coverage,
                     tfidf_score,
                     sig.category_overlap)

RankedMatch(article, conf) ==
    [article_id |-> article.id, subject |-> article.subject, confidence |-> conf]

\* Mutant of InsertByConfidence: an item goes before the items equal to it
InsertBeforeEqual(sorted, item) ==
    LET before == {i \in DOMAIN sorted : sorted[i].confidence > item.confidence}
        k      == Cardinality(before)
    IN  SubSeq(sorted, 1, k) \o <<item>> \o SubSeq(sorted, k + 1, Len(sorted))

\* list.sort(key=confidence, reverse=True): stable, equal keys keep their order
InsertByConfidence(sorted, item) ==
    LET before == {i \in DOMAIN sorted : sorted[i].confidence >= item.confidence}
        k      == Cardinality(before)
    IN  SubSeq(sorted, 1, k) \o <<item>> \o SubSeq(sorted, k + 1, Len(sorted))

RECURSIVE sort_by_confidence(_)
sort_by_confidence(items) ==
    IF items = <<>> THEN <<>>
    ELSE InsertByConfidence(sort_by_confidence(SubSeq(items, 1, Len(items) - 1)),
                            items[Len(items)])

\* The loop of lines 150-240 and the sort of line 242, given what the query
\* yields per article (sigs) and the vectorizer's scores.
rank_from_signals(articles, sigs, scores) ==
    sort_by_confidence(
        [idx \in DOMAIN articles |->
            RankedMatch(articles[idx], article_confidence(sigs[idx], scores[idx]))])

query_signals(articles, q) ==
    [idx \in DOMAIN articles |-> ArticleSignals(articles[idx], q)]

rank_articles(articles, q, scores) ==
    rank_from_signals(articles, query_signals(articles, q), scores)

-----------------------------------------------------------------------------------------------------------------------------------------------------
(* _TemplateContext and template rendering *)

PyNone == "<None>"

\* str.format of a value: None prints as "None"
Str(v) == IF v = PyNone THEN "None" ELSE v

\* dict(a) updated with b
Merge(a, b) ==
    [k \in (DOMAIN a) \cup (DOMAIN b) |-> IF k \in DOMAIN b THEN b[k] ELSE a[k]]

EmptyDict == [k \in {} |-> ""]

metadata_defaults ==
    [k \in {"student_name", "term", "registration_deadline", "withdrawal_deadline",
            "financial_aid_phone", "financial_aid_email"} |->
        CASE k = "student_name"          -> "there"
          [] k = "term"                  -> "the upcoming term"
          [] k = "registration_deadline" -> "the published registration deadline"
          [] k = "withdrawal_deadline"   -> "the posted withdrawal deadline"
          [] k = "financial_aid_phone"   -> "(555) 123-4567"
          [] k = "financial_aid_email"   -> "finaid@university.edu"]

\* Mutant of TemplateContext: the keys the caller supplied are not remembered
TemplateContext_ForgettingOverrides(defaults, overrides) ==
    [values |-> Merge(defaults, overrides),
     defaults |-> defaults,
     override_keys |-> {},
     used_default_keys |-> {},
     missing_keys |-> {}]

\* _TemplateContext.__init__: the dict holds the defaults updated with the
\* overrides; both tracking sets start empty.
TemplateContext(defaults, overrides) ==
    [values |-> Merge(defaults, overrides),
     defaults |-> defaults,
     override_keys |-> DOMAIN overrides,
     used_default_keys |-> {},
     missing_keys |-> {}]

\* Mutant of TemplateLookup: a key found only in the defaults counts as missing
TemplateLookup_DefaultIsMissing(context, key) ==
    IF key \notin DOMAIN context.values
    THEN [text |-> "{" \o key \o "}",
          context |-> [context EXCEPT !.missing_keys = @ \cup {key}]]
    ELSE [text |-> Str(context.values[key]),
          context |->
            IF key \notin context.override_keys
            THEN [context EXCEPT !.missing_keys = @ \cup {key}]
            ELSE context]

\* Mutant of TemplateLookup: an absent key yields the empty string, unrecorded
TemplateLookup_MissingIsEmpty(context, key) ==
    IF key \notin DOMAIN context.values
    THEN [text |-> "", context |-> context]
    ELSE [text |-> Str(context.values[key]),
          context |->
            IF key \in DOMAIN context.defaults /\ key \notin context.override_keys
            THEN [context EXCEPT !.used_default_keys = @ \cup {key}]
            ELSE context]

\* _TemplateContext.__getitem__: the text the key yields and the context after
TemplateLookup(context, key) ==
    IF key \notin DOMAIN context.values
    THEN [text |-> "{" \o key \o "}",
          context |-> [context EXCEPT !.missing_keys = @ \cup {key}]]
    ELSE [text |-> Str(context.values[key]),
          context |->
            IF key \in DOMAIN context.defaults /\ key \notin context.override_keys
            THEN [context EXCEPT !.used_default_keys = @ \cup {key}]
            ELSE context]

\* str.format_map(context) over the parts of a template, left to right
RECURSIVE format_map(_, _)
format_map(template, context) ==
    IF template = <<>> THEN [text |-> "", context |-> context]
    ELSE LET part == Head(template)
             here == IF part.kind = "key" THEN TemplateLookup(context, part.text)
                     ELSE [text |-> part.text, context |-> context]
             rest == format_map(Tail(template), here.context)
         IN  [text |-> here.text \o rest.text, context |-> rest.context]

\* The template as the string the knowledge base holds
RECURSIVE TemplateText(_)
TemplateText(template) ==
    IF template = <<>> THEN ""
    ELSE (IF Head(template).kind = "key" THEN "{" \o Head(template).text \o "}"
          ELSE IF Head(template).kind = "unclosed" THEN "{" \o Head(template).text
          ELSE Head(template).text) \o TemplateText(Tail(template))

\* str.format_map raises ValueError on an unbalanced brace
format_raises(template) == \E i \in DOMAIN template : template[i].kind = "unclosed"

\* Lines 335-336: neither format_map call is guarded
render_raises(article) ==
    format_raises(article.subject) \/ format_raises(article.response_template)

render_article(article, metadata) ==
    LET context == TemplateContext(Merge(metadata_defaults, article.metadata), metadata)
        subject == format_map(article.subject, context)
        body    == format_map(article.response_template, subject.context)
    IN  [subject |-> subject.text, body |-> body.text, context |-> body.context]

-----------------------------------------------------------------------------
(* EmailAdvisor.process_query *)

NoArticle == "<None>"

reference_limit == 3

Reason(msg, detail) == [msg |-> msg, detail |-> detail]

\* f"{confidence:.2f}"
Fixed2(conf) ==
    LET hundredths == (conf + (Unit \div 200)) \div (Unit \div 100)
    IN  ToString(hundredths \div 100) \o "."
        \o ToString((hundredths % 100) \div 10) \o ToString(hundredths % 10)

\* The placeholder and metadata keys of the model, in sorted() order
SortedKeys ==
    <<"advisor_name", "financial_aid_email", "financial_aid_phone", "gpa", "office",
      "registration_deadline", "student_name", "term", "withdrawal_deadline">>

RECURSIVE Join(_, _)
Join(sep, strings) ==
    IF strings = <<>> THEN ""
    ELSE IF Len(strings) = 1 THEN strings[1]
    ELSE strings[1] \o sep \o Join(sep, Tail(strings))

\* ", ".join(sorted(keys))
JoinSorted(keys) == Join(", ", SelectSeq(SortedKeys, LAMBDA k : k \in keys))

\* self._known_metadata_keys (lines 86, 107)
known_metadata_keys(articles) ==
    (DOMAIN metadata_defaults)
    \cup UNION {DOMAIN articles[i].metadata : i \in DOMAIN articles}

Truthy(v) == v # "" /\ v # PyNone

\* Lines 248-255: the extracted facts merged one by one
RECURSIVE merge_facts(_, _, _, _)
merge_facts(metadata, notes, facts, known) ==
    IF facts = <<>> THEN [metadata |-> metadata, notes |-> notes]
    ELSE LET fact == Head(facts)
             skip == \/ fact.key \notin known
                     \/ (fact.key \in DOMAIN metadata /\ Truthy(metadata[fact.key]))
         IN  IF skip THEN merge_facts(metadata, notes, Tail(facts), known)
             ELSE merge_facts(Merge(metadata, [k \in {fact.key} |-> fact.value]),
                              Append(notes, Reason(fact.reason, "")),
                              Tail(facts), known)

\* Mutant of get_references: a raising retriever leaves no trace
get_references_failing_silently(env, reasons) ==
    IF env.retriever = "returns"
    THEN [references |-> env.references, reasons |-> reasons]
    ELSE [references |-> <<>>, reasons |-> reasons]

\* _get_references: the references and the reasons after the call
get_references(env, reasons) ==
    IF env.retriever = "none" \/ reference_limit <= 0
    THEN [references |-> <<>>, reasons |-> reasons]
    ELSE IF env.retriever = "raises"
    THEN [references |-> <<>>,
          reasons |-> Append(reasons, Reason("Reference retrieval failed: ", "timeout"))]
    ELSE [references |-> env.references, reasons |-> reasons]

\* TemplateEmailComposer.compose
compose(base_subject, base_body, references) ==
    IF references = <<>> THEN [subject |-> base_subject, body |-> base_body]
    ELSE [subject |-> base_subject,
          body |-> base_body \o "\n\nReferences:\n" \o Join("\n", references)]

\* KnowledgeBase.get: the article with that id, or nothing
kb_get(articles, article_id, env) ==
    IF env.lookup_fails THEN <<>>
    ELSE SelectSeq(articles, LAMBDA a : a.id = article_id)

FallbackBody ==
    <<Lit("Hello "), Key("student_name"),
      Lit(",\n\nThanks for contacting the advising office. Your question has been routed to an advisor for a personal response. We will review the details and get back to you within one business day.\n\nBest,\nAcademic Advising Team")>>

\* Mutant of fallback_confidence: the ranked list ignored
fallback_confidence_zero(matches) == 0

\* Line 361
fallback_confidence(matches) == IF matches # <<>> THEN matches[1].confidence ELSE 0

\* Mutant of fallback_response: no reason given when none was collected
fallback_response_without_default_reason(metadata, reasons, matches, env) ==
    LET context == TemplateContext(metadata_defaults, metadata)
        body    == format_map(FallbackBody, context)
        refs    == get_references(env, reasons)
    IN  [subject |-> "Advising team follow-up required",
         body |-> body.text,
         auto_send |-> FALSE,
         confidence |-> fallback_confidence(matches),
         decision |-> "needs_review",
         article_id |-> NoArticle,
         follow_up_questions |-> <<>>,
         reasons |-> refs.reasons,
         ranked_matches |-> matches,
         references |-> refs.references]

fallback_response(metadata, reasons, matches, env) ==
    LET context == TemplateContext(metadata_defaults, metadata)
        body    == format_map(FallbackBody, context)
        why     == IF reasons = <<>>
                   THEN <<Reason("Unable to determine an appropriate template.", "")>>
                   ELSE reasons
        refs    == get_references(env, why)
    IN  [subject |-> "Advising team follow-up required",
         body |-> body.text,
         auto_send |-> FALSE,
         confidence |-> fallback_confidence(matches),
         decision |-> "needs_review",
         article_id |-> NoArticle,
         follow_up_questions |-> <<>>,
         reasons |-> refs.reasons,
         ranked_matches |-> matches,
         references |-> refs.references]

\* Mutant of auto_send_decision: the missing keys ignored
auto_send_ignoring_missing(confidence, conf, missing_keys) ==
    confidence >= conf.auto_send_threshold

\* Lines 297-300
auto_send_decision(confidence, conf, missing_keys) ==
    confidence >= conf.auto_send_threshold /\ missing_keys = {}

\* Lines 287-329: the matched article rendered, composed and decided
rendered_response(article, best_match, matches, metadata, notes, reasons0, conf, env) ==
    LET rendered == render_article(article, metadata)
        context  == rendered.context
        refs     == get_references(env, reasons0)
        composed == compose(rendered.subject, rendered.body, refs.references)
        auto_send == auto_send_decision(best_match.confidence, conf,
                                        context.missing_keys)
        r1 == IF ~auto_send /\ best_match.confidence < conf.auto_send_threshold
              THEN Append(refs.reasons,
                     Reason("Confidence below the auto-send threshold; sending draft for review.", ""))
              ELSE refs.reasons
        r2 == IF ~auto_send /\ context.missing_keys # {}
              THEN Append(r1, Reason("Template placeholders missing values: ",
                                     JoinSorted(context.missing_keys)))
              ELSE r1
        r3 == IF context.used_default_keys # {}
              THEN Append(r2, Reason("Default values used for: ",
                                     JoinSorted(context.used_default_keys)))
              ELSE r2
    IN  [response |->
            [subject |-> composed.subject,
             body |-> composed.body,
             auto_send |-> auto_send,
             confidence |-> best_match.confidence,
             decision |-> IF auto_send THEN "auto_send" ELSE "needs_review",
             article_id |-> article.id,
             follow_up_questions |-> article.follow_up_questions,
             reasons |-> r3 \o notes,
             ranked_matches |-> matches,
             references |-> refs.references],
         context |-> context]

\* best_match.confidence - second.confidence is a binary floating-point
\* subtraction: a lead that equals ambiguity_gap in decimal may compute just
\* below it (0.97 - 0.92 gives 0.04999999999999993 < 0.05).  The set holds
\* the outcomes: whether the computed lead falls below the exact one.
lead_roundings(matches, conf) ==
    IF /\ Len(matches) > 1
       /\ conf.ambiguity_gap > 0
       /\ matches[1].confidence - matches[2].confidence = conf.ambiguity_gap
    THEN BOOLEAN
    ELSE {FALSE}

\* Mutant of is_ambiguous: a confident best match is never ambiguous
is_ambiguous_unless_confident(matches, conf, rounds_below) ==
    /\ Len(matches) > 1
    /\ matches[2].confidence >= conf.review_threshold
    /\ \/ matches[1].confidence - matches[2].confidence < conf.ambiguity_gap
       \/ rounds_below
    /\ matches[1].confidence < conf.auto_send_threshold

\* Lines 265-270
is_ambiguous(matches, conf, rounds_below) ==
    /\ Len(matches) > 1
    /\ matches[2].confidence >= conf.review_threshold
    /\ \/ matches[1].confidence - matches[2].confidence < conf.ambiguity_gap
       \/ rounds_below

\* Mutant of below_review_threshold: compared with the wrong setting
below_ambiguity_gap(best_match, conf) ==
    best_match.confidence < conf.ambiguity_gap

\* Line 276
below_review_threshold(best_match, conf) ==
    best_match.confidence < conf.review_threshold

\* Lines 256-329, given the ranked matches: the response, the branch taken
\* and the template context of the render (empty sets when nothing rendered)
decide(articles, conf, matches, metadata, notes, env, rounds_below) ==
    LET NoRender(path, resp) ==
            [response |-> resp, path |-> path, missing_keys |-> {},
             used_default_keys |-> {}, rendered |-> FALSE]
    IN  IF matches = <<>>
        THEN NoRender("no_matches", fallback_response(metadata, notes, <<>>, env))
        ELSE
          LET best_match == matches[1]
              top == <<Reason("Top match scored ",
                              TemplateText(best_match.subject) \o " "
                              \o Fixed2(best_match.confidence))>>
              ambiguous == is_ambiguous(matches, conf, rounds_below)
              found == kb_get(articles, best_match.article_id, env)
          IN  IF ambiguous
              THEN NoRender("ambiguous",
                     fallback_response(metadata,
                       Append(top, Reason("Multiple templates scored similarly high; routing to advisors for review.", ""))
                       \o notes, matches, env))
              ELSE IF below_review_threshold(best_match, conf)
              THEN NoRender("low_confidence",
                     fallback_response(metadata,
                       Append(top, Reason("No article exceeded the review confidence threshold; escalating to advising team.", ""))
                       \o notes, matches, env))
              ELSE IF found = <<>>
              THEN NoRender("missing_article",
                     fallback_response(metadata,
                       Append(top, Reason("Matched article could not be found in the knowledge base.", ""))
                       \o notes, matches, env))
              ELSE
                LET out == rendered_response(found[1], best_match, matches, metadata,
                                             notes, top, conf, env)
                IN  [response |-> out.response, path |-> "rendered",
                     missing_keys |-> out.context.missing_keys,
                     used_default_keys |-> out.context.used_default_keys,
                     rendered |-> TRUE]

process_query(articles, conf, q, scores, metadata, facts, env, rounds_below) ==
    CHOOSE out \in {decide(articles, conf, matches, merged.metadata, merged.notes,
                            env, rounds_below) :
                         matches \in {rank_articles(articles, q, scores)},
                         merged \in {merge_facts(metadata, <<>>, facts,
                                                 known_metadata_keys(articles))}} : TRUE

-----------------------------------------------------------------------------
(* Inputs *)

QueryAlphabet == {"drop", "class", "course", "how", "?"}

Queries == UNION {[1..n -> QueryAlphabet] : n \in 0..MaxQueryLen}

\* TfIdfVectorizer.similarities, after the per-sentence maximum of lines
\* 142-146: one cosine similarity in [0, 1] per article.
TfidfGrid == {Frac(i, TfidfSteps) : i \in 0..TfidfSteps}

similarities(articles) == [DOMAIN articles -> TfidfGrid]

ConfidenceSettings(review, auto, gap) ==
    [review_threshold |-> Pct(review), auto_send_threshold |-> Pct(auto),
     ambiguity_gap |-> Pct(gap)]

SettingsPool ==
    {ConfidenceSettings(60, 90, 5),
     ConfidenceSettings(95, 90, 10),
     ConfidenceSettings(0, 50, 0)}

\* Queries of the process_query machine: no token, an utterance of two
\* articles, an utterance of one, the tokens of an utterance in another
\* order, a part of an utterance, stopwords only.
SampleQueries ==
    {<<>>, <<"drop", "class">>, <<"drop", "course">>, <<"class", "drop">>,
     <<"how", "?">>}

\* The caller's metadata mapping
MetadataPool ==
    {EmptyDict,
     [k \in {"student_name"} |-> PyNone],
     [k \in {"student_name", "advisor_name"} |->
        IF k = "student_name" THEN "Ana" ELSE "Dr. Lee"]}

MetadataFact(key, value, reason) == [key |-> key, value |-> value, reason |-> reason]

\* MetadataExtractor.extract(query): the facts found, in extraction order
FactsPool ==
    {<<>>,
     <<MetadataFact("student_name", "Sam", "Detected the student's name."),
       MetadataFact("gpa", "3.9", "Detected a GPA."),
       MetadataFact("term", "Fall 2026", "Detected the term.")>>}

\* What the collaborators do during one call: the reference retriever
\* (absent, returning references, raising) and the knowledge-base lookup.
Env(retriever, references, lookup_fails) ==
    [retriever |-> retriever, references |-> references, lookup_fails |-> lookup_fails]

EnvPool ==
    {Env("none", <<>>, FALSE),
     Env("returns", <<"Registrar handbook">>, FALSE),
     Env("raises", <<>>, FALSE),
     Env("none", <<>>, TRUE)}

NoResponse == [decision |-> "none"]

NoCall == [path |-> "none"]

NoBlend == [stage |-> "none"]

\* Signal values of the blend: every threshold of lines 225-235, values on
\* both sides of each, and the ends of [0, 1]
SimilarityGrid == {Pct(p) : p \in {0, 10, 20, 50, 55, 70, 85, 100}}

CoverageGrid == {Pct(p) : p \in {0, 10, 20, 35, 55, 100}}

CategoryGrid == {Pct(p) : p \in {0, 10, 100}}

SignalGrid ==
    [stage : {"drawn"}, exact_match : BOOLEAN,
     best_utterance_similarity : SimilarityGrid,
     best_query_coverage : CoverageGrid,
     best_utterance_coverage : CoverageGrid,
     tfidf_score : TfidfGrid,
     category_overlap : CategoryGrid,
     confidence : {0}]

\* The two caller threads that share the one advisor
Threads == {1, 2}

\* The mappings the callers own and pass as metadata; two calls may pass
\* the same object
CallerObjects ==
    <<[k \in {"student_name"} |-> PyNone],
      [k \in {"student_name", "advisor_name"} |->
         IF k = "student_name" THEN "Ana" ELSE "Dr. Lee"]>>

NoDict == "<unallocated>"

\* Object ids: the callers' mappings first, then one slot per call for the
\* dict the call allocates
InitialHeap == CallerObjects \o [t \in Threads |-> NoDict]

local(t) == Len(CallerObjects) + t

\* The metadata argument: 0 is None, i > 0 is the caller object i
CallerArg(arg) == IF arg = 0 THEN EmptyDict ELSE CallerObjects[arg]

ThreadQueries == {<<"drop", "class">>, <<"drop", "course">>}

\* The vectorizer's scores of one call
UniformScores(articles) == {[i \in DOMAIN articles |-> s] : s \in TfidfGrid}

ThreadEnv == Env("returns", <<"Registrar handbook">>, FALSE)

IdleThread ==
    [pc |-> "idle", query |-> <<>>, arg |-> 0, ref |-> 0, facts |-> <<>>,
     notes |-> <<>>, scores |-> <<>>, ranked |-> <<>>, rounds_below |-> FALSE,
     response |-> NoResponse]

\* Mutant of dict_copy: the working metadata is the caller's own object
dict_alias(objects, arg, t) ==
    [heap |-> [objects EXCEPT ![local(t)] = EmptyDict],
     ref |-> IF arg = 0 THEN local(t) ELSE arg]

\* Mutant of dict_copy: the working metadata is kept in one slot of the
\* advisor, shared by every call
dict_copy_kept_on_instance(objects, arg, t) ==
    [heap |-> [objects EXCEPT ![local(1)] = IF arg = 0 THEN EmptyDict ELSE objects[arg]],
     ref |-> local(1)]

\* Line 246, metadata = dict(metadata or {}): a new dict owned by the call
dict_copy(objects, arg, t) ==
    [heap |-> [objects EXCEPT ![local(t)] = IF arg = 0 THEN EmptyDict ELSE objects[arg]],
     ref |-> local(t)]

-----------------------------------------------------------------------------
(* api.py: the tables, the Gmail account and the helpers of the handlers *)

\* CONFIDENCE_THRESHOLD = 0.9
CONFIDENCE_THRESHOLD == Pct(90)

\* datetime.utcnow(): the model keeps no clock, every instant reads alike
UtcNow == "<utcnow>"

\* Python's "a or b" on strings and None
PyOr(a, b) == IF Truthy(a) THEN a ELSE b

\* The token file written by save_gmail_credentials, absent or holding
\* credentials (valid or expired) and the account's address
\* No response on record: nothing handled yet, or a handler whose response
\* the model does not keep
NoRequest == [handler |-> "none", code |-> 200]

NoToken == [present |-> FALSE, valid |-> FALSE, email_address |-> PyNone]

Token(valid, email_address) ==
    [present |-> TRUE, valid |-> valid, email_address |-> email_address]

GmailAddress == "advising@columbia.edu"

\* "creds and creds.valid" on what load_gmail_credentials returns
creds_valid(token) == token.present /\ token.valid

\* A row of email_settings; the IMAP / SMTP columns no handler reads are left out
EmailSettingsORM(email_address, auto_send_enabled, auto_send_threshold) ==
    [email_address |-> email_address,
     auto_send_enabled |-> auto_send_enabled,
     auto_send_threshold |-> auto_send_threshold,
     last_synced_at |-> PyNone]

\* Mutant of get_or_create_settings: the row is created with auto-send on
get_or_create_settings_enabled(table) ==
    IF table = <<>>
    THEN <<EmailSettingsORM("", TRUE, CONFIDENCE_THRESHOLD)>>
    ELSE table

\* The table after get_or_create_settings; the row it returns is the first
get_or_create_settings(table) ==
    IF table = <<>>
    THEN <<EmailSettingsORM("", FALSE, CONFIDENCE_THRESHOLD)>>
    ELSE table

\* A row of emails as the handlers construct it
EmailORM(id, student_name, uni, email_address, subject, body, confidence, status, suggested_reply) ==
    [id |-> id, student_name |-> student_name, uni |-> uni,
     email_address |-> email_address, subject |-> subject, body |-> body,
     confidence |-> confidence, status |-> status,
     suggested_reply |-> suggested_reply,
     received_at |-> UtcNow, approved_at |-> PyNone]

\* subject.startswith("Re:") on the subjects of the model
StartsWithRe(subject) == subject \in {"Re: Help"}

\* The message send_email_via_gmail_api hands to Gmail (plain-text part)
gmail_message(from_addr, to_addr, subject, body) ==
    [from |-> from_addr, to |-> to_addr,
     subject |-> IF StartsWithRe(subject) THEN subject ELSE "Re: " \o subject,
     body |-> body]

\* Lines 704-711 on the addresses of the model: the UNI of a Columbia or
\* Barnard address, lower-cased, else None
extract_uni(from_addr) ==
    CASE from_addr = "ab1234@columbia.edu" -> "ab1234"
      [] from_addr = "CD5678@Barnard.edu"  -> "cd5678"
      [] OTHER                             -> PyNone

\* "auto if confidence >= threshold else review"
email_status(confidence, threshold) ==
    IF confidence >= threshold THEN "auto" ELSE "review"

\* The module-level advisor is built with a retriever
ApiEnvPool == {env \in EnvPool : env.retriever # "none"}

\* advisor.process_query(body, {"student_name": name}): every response the
\* collaborators (vectorizer, extractor, retriever) allow
advise(body, student_name) ==
    LET metadata == [k \in {"student_name"} |-> student_name]
        known == known_metadata_keys(kb)
    IN  UNION {
          UNION {
            {decide(kb, settings, matches, merged.metadata, merged.notes, env,
                    rounds_below).response :
                merged \in {merge_facts(metadata, <<>>, facts, known) :
                               facts \in FactsPool},
                env \in ApiEnvPool,
                rounds_below \in lead_roundings(matches, settings)} :
            matches \in {rank_from_signals(kb, sigs, scores) :
                            scores \in similarities(kb)}} :
          sigs \in {query_signals(kb, body)}}

\* What the history keeps of a response
Advice(result) ==
    [auto_send |-> result.auto_send, decision |-> result.decision,
     article_id |-> result.article_id, confidence |-> result.confidence]

\* Senders and messages of the model: an utterance of two articles, an
\* utterance of one under a reply subject, a sender without address and
\* subject, an empty body
Mail(from_name, from_addr, subject, body) ==
    [from_name |-> from_name, from_addr |-> from_addr, subject |-> subject,
     body |-> body]

SampleMail ==
    {Mail("Ana", "ab1234@columbia.edu", "Help", <<"Drop", "class">>),
     Mail("Ana", "ab1234@columbia.edu", "Re: Help", <<"drop", "course">>),
     Mail("", "", "", <<"Drop", "class">>),
     Mail("Ana", "ab1234@columbia.edu", "Help", <<>>)}

\* The auto_send_threshold values a settings update may carry
ThresholdPool == {0, Pct(50), CONFIDENCE_THRESHOLD}

\* EmailSettingsUpdate payloads: the fields the Settings tab sends, any of
\* them unset
SettingsPayloads ==
    {[auto_send_enabled |-> e] : e \in BOOLEAN}
    \cup {[auto_send_threshold |-> t] : t \in ThresholdPool}
    \cup {[auto_send_enabled |-> e, auto_send_threshold |-> t] :
            e \in BOOLEAN, t \in ThresholdPool}

\* The tables and the Gmail account as one loop of sync_emails sees them
SyncState(rows, history, sent, unread) ==
    [emails |-> rows, results |-> history, outbox |-> sent, mailbox |-> unread,
     ingested |-> 0, auto_sent |-> 0]

\* messages().modify(removeLabelIds = ["UNREAD"]) on the message being handled
mark_read(st) == [st EXCEPT !.mailbox = Tail(@)]

\* Mutant of sync_store: auto_sent counts the attempts, failed ones too
sync_store_counting_attempts(st, m, result, row, token, threshold) ==
    LET confidence == result.confidence
        status_enum == email_status(confidence, threshold)
        id == Len(st.emails) + 1
        email_obj == EmailORM(id, PyOr(m.from_name, PyNone), extract_uni(m.from_addr),
                              m.from_addr, PyOr(m.subject, "(no subject)"), m.body,
                              confidence, status_enum, result.body)
        stored == [st EXCEPT !.emails = Append(@, email_obj),
                             !.results = Append(@, Advice(result)),
                             !.ingested = @ + 1]
        reply == gmail_message(PyOr(token.email_address, row.email_address),
                               m.from_addr, m.subject, result.body)
        sent == [stored EXCEPT !.emails[id].status = "sent",
                               !.outbox = Append(@, [email_id |-> id, message |-> reply]),
                               !.auto_sent = @ + 1]
    IN  IF status_enum = "auto" /\ row.auto_send_enabled /\ Truthy(m.from_addr)
        THEN {mark_read(sent), mark_read([stored EXCEPT !.auto_sent = @ + 1])}
        ELSE {mark_read(stored)}

\* Lines 691-746 for one advisor result: the row stored, then the reply sent
\* (or the send raising, which the handler only prints), then marked read
sync_store(st, m, result, row, token, threshold) ==
    LET confidence == result.confidence
        status_enum == email_status(confidence, threshold)
        id == Len(st.emails) + 1
        email_obj == EmailORM(id, PyOr(m.from_name, PyNone), extract_uni(m.from_addr),
                              m.from_addr, PyOr(m.subject, "(no subject)"), m.body,
                              confidence, status_enum, result.body)
        stored == [st EXCEPT !.emails = Append(@, email_obj),
                             !.results = Append(@, Advice(result)),
                             !.ingested = @ + 1]
        reply == gmail_message(PyOr(token.email_address, row.email_address),
                               m.from_addr, m.subject, result.body)
        sent == [stored EXCEPT !.emails[id].status = "sent",
                               !.outbox = Append(@, [email_id |-> id, message |-> reply]),
                               !.auto_sent = @ + 1]
    IN  IF status_enum = "auto" /\ row.auto_send_enabled /\ Truthy(m.from_addr)
        THEN {mark_read(sent), mark_read(stored)}
        ELSE {mark_read(stored)}

\* Lines 648-746: one pass of the loop, every state it can leave
sync_message(st, m, row, token, threshold) ==
    IF m.body = <<>>
    THEN {mark_read(st)}
    ELSE IF \E i \in DOMAIN st.emails :
                st.emails[i].subject = m.subject /\ st.emails[i].body = m.body
    THEN {mark_read(st)}
    ELSE UNION {sync_store(st, m, result, row, token, threshold) :
                    result \in advise(m.body, m.from_name)}

\* Lines 647-746: the loop over the listed messages
RECURSIVE sync_loop(_, _, _, _, _)
sync_loop(st, messages, row, token, threshold) ==
    IF messages = <<>> THEN {st}
    ELSE UNION {sync_loop(next, Tail(messages), row, token, threshold) :
                    next \in sync_message(st, Head(messages), row, token, threshold)}

\* No call of augment_tokens yet
NoAugment == [stage |-> "none", tokens |-> <<>>, returned |-> <<>>]

\* The requests the server handles at once (handlers are plain def functions:
\* each runs on a thread of the pool with a session of its own)
Requests == {1, 2}

\* A request slot with no request in it
IdleSession ==
    [pc |-> "idle", handler |-> "none", row |-> 0, email_id |-> 0]


-----------------------------------------------------------------------------
(* The machines: one constructed advisor, any number of calls *)

Init ==
    /\ kb \in KnowledgeBases
    /\ settings \in SettingsPool
    /\ pc = "idle"
    /\ query = <<>>
    /\ tfidf = <<>>
    /\ ranked = <<>>
    /\ call = NoCall
    /\ response = NoResponse
    /\ emails = <<>>
    /\ email_settings = <<>>
    /\ gmail_token = NoToken
    /\ mailbox = <<>>
    /\ outbox = <<>>
    /\ results = <<>>
    /\ http = NoRequest
    /\ threads = [t \in Threads |-> IdleThread]
    /\ heap = InitialHeap
    /\ sessions = [r \in Requests |-> IdleSession]
    /\ blend = NoBlend
    /\ augmented = NoAugment

RankArticles ==
    /\ pc = "idle"
    /\ \E q \in Queries :
        \E sigs \in {query_signals(kb, q)} :
            \E scores \in similarities(kb) :
                /\ query' = q
                /\ tfidf' = scores
                /\ ranked' = rank_from_signals(kb, sigs, scores)
    /\ pc' = "ranked"
    /\ UNCHANGED <<kb, settings, call, response>>
    /\ UNCHANGED apiVars
    /\ UNCHANGED threadVars
    /\ UNCHANGED <<blend, augmented>>

ProcessQuery ==
    /\ pc = "idle"
    /\ \E q \in SampleQueries, metadata \in MetadataPool, facts \in FactsPool :
        \E sigs \in {query_signals(kb, q)},
           merged \in {merge_facts(metadata, <<>>, facts, known_metadata_keys(kb))} :
            \E scores \in similarities(kb) :
                \E matches \in {rank_from_signals(kb, sigs, scores)} :
                    \E env \in EnvPool, rounds_below \in lead_roundings(matches, settings) :
                        \E out \in {decide(kb, settings, matches, merged.metadata,
                                           merged.notes, env, rounds_below)} :
                            /\ query' = q
                            /\ tfidf' = scores
                            /\ ranked' = matches
                            /\ call' = [metadata |-> metadata, facts |-> facts,
                                        env |-> env,
                                        rounds_below |-> rounds_below,
                                        working |-> merged.metadata,
                                        notes |-> merged.notes,
                                        path |-> out.path,
                                        missing_keys |-> out.missing_keys,
                                        used_default_keys |-> out.used_default_keys]
                            /\ response' = out.response
    /\ pc' = "responded"
    /\ UNCHANGED <<kb, settings>>
    /\ UNCHANGED apiVars
    /\ UNCHANGED threadVars
    /\ UNCHANGED <<blend, augmented>>

Return ==
    /\ pc # "idle"
    /\ pc' = "idle"
    /\ query' = <<>>
    /\ tfidf' = <<>>
    /\ ranked' = <<>>
    /\ call' = NoCall
    /\ response' = NoResponse
    /\ UNCHANGED <<kb, settings>>
    /\ UNCHANGED apiVars
    /\ UNCHANGED threadVars
    /\ UNCHANGED <<blend, augmented>>

NextQuery == ProcessQuery \/ Return

\* An advisor with any of the settings, answering queries
SpecQuery == Init /\ [][NextQuery]_vars

InitRank == Init /\ settings = ConfidenceSettings(60, 90, 5)

NextRank == RankArticles \/ ProcessQuery \/ Return

\* An advisor with the usual settings, ranking and answering queries
SpecRank == InitRank /\ [][NextRank]_vars

\* The utterances of the articles, as texts a student may send word for word
UtteranceTexts == UNION {Range(a.utterances) : a \in ArticlePool}

\* rank_articles called with an utterance as the query
RankUtterance ==
    /\ pc = "idle"
    /\ \E q \in UtteranceTexts :
        \E sigs \in {query_signals(kb, q)} :
            \E scores \in similarities(kb) :
                /\ query' = q
                /\ tfidf' = scores
                /\ ranked' = rank_from_signals(kb, sigs, scores)
    /\ pc' = "ranked"
    /\ UNCHANGED <<kb, settings, call, response>>
    /\ UNCHANGED apiVars
    /\ UNCHANGED threadVars
    /\ UNCHANGED <<blend, augmented>>

NextUtterance == RankUtterance \/ RankArticles \/ Return

\* An advisor with the usual settings, ranking utterances and other queries
SpecUtterance == InitRank /\ [][NextUtterance]_vars

-----------------------------------------------------------------------------
(* The HTTP layer: the handlers of api.py and the Gmail account around them *)

\* POST /emails/ingest
IngestEmail ==
    /\ Len(emails) < MaxEmails
    /\ \E m \in SampleMail :
        \E result \in advise(m.body, PyOr(m.from_name, PyNone)) :
            LET email_address == PyOr(m.from_addr, PyNone)
                confidence == result.confidence
                status == email_status(confidence, CONFIDENCE_THRESHOLD)
                id == Len(emails) + 1
                email_obj == EmailORM(id, PyOr(m.from_name, PyNone), PyNone,
                                      email_address, m.subject, m.body, confidence,
                                      status, result.body)
                table == get_or_create_settings(email_settings)
                reply == gmail_message(PyOr(gmail_token.email_address,
                                            table[1].email_address),
                                       email_address, email_obj.subject, result.body)
            IN  /\ results' = Append(results, Advice(result))
                /\ IF status = "auto"
                   THEN /\ email_settings' = table
                        /\ IF /\ table[1].auto_send_enabled
                              /\ Truthy(email_address)
                              /\ creds_valid(gmail_token)
                           THEN \/ /\ outbox' = Append(outbox, [email_id |-> id,
                                                                message |-> reply])
                                   /\ emails' = Append(emails,
                                        [email_obj EXCEPT !.status = "sent",
                                                          !.approved_at = UtcNow])
                                \/ \* the send raised: printed, the row stays auto
                                   /\ emails' = Append(emails, email_obj)
                                   /\ UNCHANGED outbox
                           ELSE /\ emails' = Append(emails, email_obj)
                                /\ UNCHANGED outbox
                   ELSE /\ emails' = Append(emails, email_obj)
                        /\ UNCHANGED <<email_settings, outbox>>
    /\ UNCHANGED <<gmail_token, mailbox>>
    /\ http' = NoRequest
    /\ UNCHANGED advisorVars
    /\ UNCHANGED threadVars
    /\ UNCHANGED <<blend, augmented>>

\* POST /emails/sync with room for cap stored emails; the listing limit (20
\* by default) exceeds MaxMessages
SyncEmailsWithin(cap) ==
    /\ \E table \in {get_or_create_settings(email_settings)} :
        IF ~creds_valid(gmail_token)
        THEN \* HTTP 400, after the settings row was created
             /\ email_settings' = table
             /\ http' = [handler |-> "sync_emails", code |-> 400,
                         ingested |-> 0, auto_sent |-> 0]
             /\ UNCHANGED <<emails, results, outbox, mailbox>>
        ELSE LET row == table[1]
                 threshold == IF row.auto_send_threshold # 0
                              THEN row.auto_send_threshold
                              ELSE CONFIDENCE_THRESHOLD
             IN  \E final \in sync_loop(SyncState(emails, results, outbox, mailbox),
                                        mailbox, row, gmail_token, threshold) :
                    /\ Len(final.emails) <= cap
                    /\ emails' = final.emails
                    /\ results' = final.results
                    /\ outbox' = final.outbox
                    /\ mailbox' = final.mailbox
                    /\ email_settings' = <<[row EXCEPT !.last_synced_at = UtcNow]>>
                    /\ http' = [handler |-> "sync_emails", code |-> 200,
                                ingested |-> final.ingested,
                                auto_sent |-> final.auto_sent]
    /\ UNCHANGED gmail_token
    /\ UNCHANGED advisorVars
    /\ UNCHANGED threadVars
    /\ UNCHANGED <<blend, augmented>>

SyncEmails == SyncEmailsWithin(MaxEmails)

\* POST /email-settings
UpdateEmailSettings ==
    /\ \E payload \in SettingsPayloads :
        LET row == get_or_create_settings(email_settings)[1]
        IN  email_settings' =
                <<[field \in DOMAIN row |->
                     IF field \in DOMAIN payload THEN payload[field] ELSE row[field]]>>
    /\ UNCHANGED <<emails, gmail_token, mailbox, outbox, results>>
    /\ http' = NoRequest
    /\ UNCHANGED advisorVars
    /\ UNCHANGED threadVars
    /\ UNCHANGED <<blend, augmented>>

\* GET /gmail/oauth2callback, a completed flow: the token file is written
GmailConnect ==
    /\ gmail_token' = Token(TRUE, GmailAddress)
    /\ UNCHANGED <<emails, email_settings, mailbox, outbox, results>>
    /\ http' = NoRequest
    /\ UNCHANGED advisorVars
    /\ UNCHANGED threadVars
    /\ UNCHANGED <<blend, augmented>>

\* POST /gmail/disconnect: the token file is removed
GmailDisconnect ==
    /\ gmail_token' = NoToken
    /\ UNCHANGED <<emails, email_settings, mailbox, outbox, results>>
    /\ http' = NoRequest
    /\ UNCHANGED advisorVars
    /\ UNCHANGED threadVars
    /\ UNCHANGED <<blend, augmented>>

\* The stored credentials expire: creds.valid turns false
TokenExpires ==
    /\ creds_valid(gmail_token)
    /\ gmail_token' = [gmail_token EXCEPT !.valid = FALSE]
    /\ UNCHANGED <<emails, email_settings, mailbox, outbox, results>>
    /\ http' = NoRequest
    /\ UNCHANGED advisorVars
    /\ UNCHANGED threadVars
    /\ UNCHANGED <<blend, augmented>>

\* A student's message arrives unread in the Gmail inbox
ReceiveMail ==
    /\ Len(mailbox) < MaxMessages
    /\ \E m \in SampleMail : mailbox' = <<m>> \o mailbox
    /\ UNCHANGED <<emails, email_settings, gmail_token, outbox, results>>
    /\ http' = NoRequest
    /\ UNCHANGED advisorVars
    /\ UNCHANGED threadVars
    /\ UNCHANGED <<blend, augmented>>

NextApi ==
    \/ IngestEmail
    \/ SyncEmails
    \/ UpdateEmailSettings
    \/ GmailConnect
    \/ GmailDisconnect
    \/ TokenExpires
    \/ ReceiveMail

\* The backend as deployed: the advisor with the usual settings behind the
\* HTTP handlers
SpecApi == InitRank /\ [][NextApi]_vars

-----------------------------------------------------------------------------
(* Vocabulary of the properties *)

Ranked == pc # "idle"

Responded == pc = "responded"

ArticleOf(article_id) == CHOOSE a \in Range(kb) : a.id = article_id

KbIndex(article_id) == CHOOSE i \in DOMAIN kb : kb[i].id = article_id

TemplateKeys(template) ==
    {template[i].text : i \in {j \in DOMAIN template : template[j].kind = "key"}}

\* The placeholders of the article that neither the working metadata nor
\* the defaults (global or of the article) can fill
UnresolvedKeys(article, working) ==
    (TemplateKeys(article.subject) \cup TemplateKeys(article.response_template))
    \ ((DOMAIN working) \cup (DOMAIN metadata_defaults) \cup (DOMAIN article.metadata))

\* The text a template must render to under the three-way lookup
RECURSIVE ExpectedText(_, _, _)
ExpectedText(template, article, working) ==
    IF template = <<>> THEN ""
    ELSE LET part == Head(template)
             k    == part.text
             text == IF part.kind = "lit" THEN k
                     ELSE IF k \in DOMAIN working THEN Str(working[k])
                     ELSE IF k \in DOMAIN article.metadata THEN article.metadata[k]
                     ELSE IF k \in DOMAIN metadata_defaults THEN metadata_defaults[k]
                     ELSE "{" \o k \o "}"
         IN  text \o ExpectedText(Tail(template), article, working)

FallbackSubject == "Advising team follow-up required"

IsFallback(r) ==
    /\ r.subject = FallbackSubject
    /\ r.decision = "needs_review"
    /\ r.auto_send = FALSE
    /\ r.article_id = NoArticle
    /\ r.follow_up_questions = <<>>

HasReason(r, msg) == \E i \in DOMAIN r.reasons : r.reasons[i].msg = msg

\* The second ranked match is at or above the review threshold and within
\* the ambiguity gap of the first
TooClose ==
    /\ Len(ranked) > 1
    /\ ranked[2].confidence >= settings.review_threshold
    /\ ranked[1].confidence - ranked[2].confidence < settings.ambiguity_gap

\* The best match is accepted: it exists, was not found ambiguous, reaches
\* the review threshold and its article id resolves
Accepted ==
    /\ ranked # <<>>
    /\ call.path # "ambiguous"
    /\ ranked[1].confidence >= settings.review_threshold
    /\ ~call.env.lookup_fails

\* The best match reaches the review threshold, leads a second match at or
\* above that threshold by more than the ambiguity gap, and its id resolves
ClearlyAhead ==
    /\ ranked # <<>>
    /\ ranked[1].confidence >= settings.review_threshold
    /\ (Len(ranked) > 1 /\ ranked[2].confidence >= settings.review_threshold) =>
          ranked[1].confidence - ranked[2].confidence > settings.ambiguity_gap
    /\ ~call.env.lookup_fails

\* Some sentence of the query and some utterance of the article have the
\* same raw token sequence
SentenceEqualsUtterance(article, q) ==
    \E i \in DOMAIN article.utterances :
        \E sentence \in Range(sentence_tokens(q)) :
            tokenize(article.utterances[i]) = sentence

NonEmptySentenceEqualsUtterance(article, q) ==
    \E i \in DOMAIN article.utterances :
        \E sentence \in Range(sentence_tokens(q)) :
            sentence # <<>> /\ tokenize(article.utterances[i]) = sentence

-----------------------------------------------------------------------------
(* Properties of process_query *)

\* C1: in every response, auto_send is true exactly when the rendered path
\* was reached, the best confidence is at least auto_send_threshold and the
\* render recorded no missing key; decision is "auto_send" exactly when
\* auto_send is true, and "needs_review" otherwise.
C1_AutoSendIff ==
    Responded =>
        /\ response.auto_send <=>
             (/\ call.path = "rendered"
              /\ ranked[1].confidence >= settings.auto_send_threshold
              /\ call.missing_keys = {})
        /\ response.decision = IF response.auto_send THEN "auto_send" ELSE "needs_review"

C1_Witness ==
    /\ Responded
    /\ response.auto_send
    /\ response.decision = "auto_send"
    /\ call.used_default_keys # {}

\* C2: every reply that ingest_email or sync_emails sent on its own answers
\* an email for which process_query returned auto_send = true; a fallback
\* response or one with missing template keys is never sent automatically.
C2_SentOnlyIfAutoSend ==
    \A i \in DOMAIN outbox : results[outbox[i].email_id].auto_send

\* C3: a second match at or above review_threshold and within ambiguity_gap
\* of the best one gives the fallback response, with the reason "routing to
\* advisors for review", however high the best confidence is.
C3_AmbiguousFallsBack ==
    (Responded /\ TooClose) =>
        /\ IsFallback(response)
        /\ HasReason(response,
             "Multiple templates scored similarly high; routing to advisors for review.")

C3_Witness ==
    /\ Responded
    /\ TooClose
    /\ ranked[1].confidence = Unit
    /\ ranked[1].confidence >= settings.auto_send_threshold

\* C4: a best confidence below review_threshold gives the fallback response
\* (needs_review, auto_send false, article_id null) and the body is the
\* fixed follow-up text, not a rendered article template.
C4_LowConfidenceFallsBack ==
    (Responded /\ ranked # <<>> /\ ranked[1].confidence < settings.review_threshold) =>
        /\ IsFallback(response)
        /\ call.path = "low_confidence"
        /\ response.references = <<>> =>
             response.body = ExpectedText(FallbackBody, [metadata |-> EmptyDict],
                                          call.working)

C4_Witness ==
    /\ Responded
    /\ Len(ranked) > 1
    /\ ranked[1].confidence < settings.review_threshold
    /\ ranked[1].confidence > Pct(5)

C5_Premise ==
    /\ Responded
    /\ ranked # <<>>
    /\ ranked[1].confidence >= settings.auto_send_threshold
    /\ UnresolvedKeys(ArticleOf(ranked[1].article_id), call.working) = {}

C5_Conclusion ==
    /\ response.decision = "auto_send"
    /\ response.article_id = ranked[1].article_id

\* C5 as claimed: a best confidence at or above auto_send_threshold with fully
\* resolvable templates always gives decision auto_send with the article id.
C5_ConfidentAlwaysAutoSend == C5_Premise => C5_Conclusion

\* C5 as amended: ... provided the best match also reaches review_threshold,
\* leads every second match at or above review_threshold by more than
\* ambiguity_gap, and its article id resolves in the knowledge base.
C5_ConfidentAcceptedAutoSend == (C5_Premise /\ ClearlyAhead) => C5_Conclusion

C5_Witness ==
    /\ C5_Premise
    /\ ClearlyAhead
    /\ ranked[1].confidence = Unit
    /\ Len(ranked) > 1

\* C6: when the accepted article's templates hold a key that neither the
\* working metadata nor the defaults fill, the text keeps the literal {key},
\* the key is recorded as missing, and the response is the rendered article
\* (article_id set) with decision needs_review, whatever the confidence.
C6_MissingKeyNeedsReview ==
    (Responded /\ Accepted
       /\ UnresolvedKeys(ArticleOf(ranked[1].article_id), call.working) # {}) =>
        LET article == ArticleOf(ranked[1].article_id)
        IN  /\ call.path = "rendered"
            /\ call.missing_keys = UnresolvedKeys(article, call.working)
            /\ response.decision = "needs_review"
            /\ response.auto_send = FALSE
            /\ response.article_id = article.id
            /\ response.subject = ExpectedText(article.subject, article, call.working)
            /\ response.references = <<>> =>
                 response.body =
                   ExpectedText(article.response_template, article, call.working)

C6_Witness ==
    /\ Responded
    /\ Accepted
    /\ "advisor_name" \in call.missing_keys
    /\ ranked[1].confidence >= settings.auto_send_threshold
    /\ response.references = <<>>

\* C7: every outcome other than the rendered one (no match, ambiguous, low
\* confidence, unresolvable article id) is the fallback response, with the
\* confidence of the top ranked match when there is one and 0 otherwise.
C7_NotAcceptedIsFallback ==
    (Responded /\ ~Accepted) =>
        /\ call.path # "rendered"
        /\ IsFallback(response)
        /\ response.confidence = IF ranked # <<>> THEN ranked[1].confidence ELSE 0

C7_Witness ==
    /\ Responded
    /\ call.path = "missing_article"
    /\ response.confidence > 0
    /\ response.confidence = ranked[1].confidence

-----------------------------------------------------------------------------
(* Properties of rank_articles *)

\* Entry i of the ranked list is preceded only by articles of exact_ids
\* (the exact matches) that come earlier in the knowledge base
OnTop(i, exact_ids) ==
    \A j \in 1..(i - 1) :
        /\ ranked[j].article_id \in exact_ids
        /\ KbIndex(ranked[j].article_id) < KbIndex(ranked[i].article_id)

C9_ConfidenceBounds ==
    Ranked =>
        \A i \in DOMAIN ranked :
            LET c == ranked[i].confidence
            IN  /\ 0 <= c /\ c <= Unit
                /\ IF NonEmptySentenceEqualsUtterance(ArticleOf(ranked[i].article_id),
                                                      query)
                   THEN c = Unit
                   ELSE Pct(5) <= c /\ c <= Pct(97)

C9_Witness ==
    /\ pc = "ranked"
    /\ \E i \in DOMAIN ranked :
        /\ ranked[i].confidence = Pct(97)
        /\ ~NonEmptySentenceEqualsUtterance(ArticleOf(ranked[i].article_id), query)

\* One entry per article, non-increasing confidence, ties in knowledge-base order
WellRanked(list) ==
    /\ Len(list) = Len(kb)
    /\ \A a \in DOMAIN kb :
         Cardinality({i \in DOMAIN list : list[i].article_id = kb[a].id}) = 1
    /\ \A i, j \in DOMAIN list :
         i < j =>
           /\ list[i].confidence >= list[j].confidence
           /\ list[i].confidence = list[j].confidence =>
                KbIndex(list[i].article_id) < KbIndex(list[j].article_id)

\* C10: the list rank_articles returns, and the ranked_matches of a
\* response, hold one entry per article, sorted non-increasing by
\* confidence, entries of equal confidence in knowledge-base order.
C10_SortedStable ==
    /\ Ranked => WellRanked(ranked)
    /\ Responded => WellRanked(response.ranked_matches)

C10_Witness ==
    /\ pc = "ranked"
    /\ \E i, j \in DOMAIN ranked :
        /\ i < j
        /\ ranked[i].confidence = ranked[j].confidence
        /\ Pct(5) < ranked[i].confidence /\ ranked[i].confidence < Unit

-----------------------------------------------------------------------------
(* Construction over knowledge bases whose templates nobody has checked *)

ArtBrokenBody ==
    [ArtDropClass EXCEPT !.id = "broken_body",
                         !.response_template = <<Lit("Hello "), Unclosed("student_name")>>]

ArtBrokenSubject ==
    [ArtClassChange EXCEPT !.id = "broken_subject",
                           !.subject = <<Lit("Change for "), Unclosed("term")>>]

UncheckedPool == {ArtDropClass, ArtBrokenBody, ArtBrokenSubject}

UncheckedKnowledgeBases ==
    {articles \in UNION {[1..n -> UncheckedPool] : n \in 0..MaxArticles} :
        \A i, j \in DOMAIN articles : i # j => articles[i].id # articles[j].id}

HasInvalidTemplate(articles) == \E i \in DOMAIN articles : render_raises(articles[i])

InitConstruct ==
    /\ kb \in UncheckedKnowledgeBases
    /\ settings = ConfidenceSettings(60, 90, 5)
    /\ pc = "new"
    /\ query = <<>>
    /\ tfidf = <<>>
    /\ ranked = <<>>
    /\ call = NoCall
    /\ response = NoResponse
    /\ emails = <<>>
    /\ email_settings = <<>>
    /\ gmail_token = NoToken
    /\ mailbox = <<>>
    /\ outbox = <<>>
    /\ results = <<>>
    /\ http = NoRequest
    /\ threads = [t \in Threads |-> IdleThread]
    /\ heap = InitialHeap
    /\ sessions = [r \in Requests |-> IdleSession]
    /\ blend = NoBlend
    /\ augmented = NoAugment

\* EmailAdvisor.__init__ (lines 60-108): the articles are tokenized and
\* indexed; no statement parses a template and none raises
Construct ==
    /\ pc = "new"
    /\ pc' = "idle"
    /\ UNCHANGED <<kb, settings, query, tfidf, ranked, call, response>>
    /\ UNCHANGED apiVars
    /\ UNCHANGED threadVars
    /\ UNCHANGED <<blend, augmented>>

\* process_query on the constructed advisor: the ValueError of format_map
\* leaves the render of line 287 and the call
ProcessQueryUnchecked ==
    /\ pc = "idle"
    /\ \E q \in SampleQueries, metadata \in MetadataPool, scores \in UniformScores(kb) :
        \E matches \in {rank_articles(kb, q, scores)} :
            \E env \in EnvPool, rounds_below \in lead_roundings(matches, settings) :
                \E out \in {decide(kb, settings, matches, metadata, <<>>, env, rounds_below)} :
                    /\ query' = q
                    /\ tfidf' = scores
                    /\ ranked' = matches
                    /\ IF out.path = "rendered" /\ render_raises(ArticleOf(matches[1].article_id))
                       THEN /\ pc' = "raised"
                            /\ response' = NoResponse
                            /\ call' = [NoCall EXCEPT !.path = "raised"]
                       ELSE /\ pc' = "responded"
                            /\ response' = out.response
                            /\ call' = [metadata |-> metadata, facts |-> <<>>,
                                        env |-> env,
                                        rounds_below |-> rounds_below,
                                        working |-> metadata,
                                        notes |-> <<>>,
                                        path |-> out.path,
                                        missing_keys |-> out.missing_keys,
                                        used_default_keys |-> out.used_default_keys]
    /\ UNCHANGED <<kb, settings>>
    /\ UNCHANGED apiVars
    /\ UNCHANGED threadVars
    /\ UNCHANGED <<blend, augmented>>

NextConstruct == Construct \/ ProcessQueryUnchecked \/ Return

\* Any knowledge base handed to the constructor, then queries
SpecConstruct == InitConstruct /\ [][NextConstruct]_vars

-----------------------------------------------------------------------------
(* The advisors' requests on stored emails *)

EditedReply == "Please see an advisor."

\* The bodies of PATCH /emails/{id}: only the fields that were set
UpdatePayloads ==
    {[k \in {"status"} |-> "sent"],
     [k \in {"status"} |-> "auto"],
     [k \in {"status"} |-> "review"],
     [k \in {"suggested_reply"} |-> EditedReply]}

NoMessage == [to |-> PyNone]

\* Mutant of send_email_reply: the edited reply is committed before the send
send_email_reply_saving_first(email_obj, token, reply_text, delivered) ==
    LET to_addr == IF Truthy(email_obj.email_address) THEN email_obj.email_address
                   ELSE email_obj.uni \o "@columbia.edu"
        final_reply == IF reply_text # PyNone THEN reply_text
                       ELSE email_obj.suggested_reply
        in_session == [email_obj EXCEPT !.suggested_reply = final_reply]
    IN  IF ~creds_valid(token)
        THEN [code |-> 400, row |-> email_obj, message |-> NoMessage]
        ELSE IF ~Truthy(email_obj.email_address) /\ ~Truthy(email_obj.uni)
        THEN [code |-> 400, row |-> email_obj, message |-> NoMessage]
        ELSE IF ~delivered
        THEN [code |-> 500, row |-> in_session, message |-> NoMessage]
        ELSE [code |-> 200,
              row |-> [in_session EXCEPT !.status = "sent",
                                         !.approved_at = IF @ = PyNone THEN UtcNow ELSE @],
              message |-> gmail_message(token.email_address, to_addr,
                                        email_obj.subject, final_reply)]

\* Lines 802-855 for a stored email: the status code, the row as persisted
\* and the message handed to Gmail.  The session object takes the new
\* suggested_reply before the send (lines 826-827); only the commit of line
\* 849 persists it, and an HTTPException leaves through db.close() with
\* nothing flushed (autoflush off, line 100).
send_email_reply(email_obj, token, reply_text, delivered) ==
    LET to_addr == IF Truthy(email_obj.email_address) THEN email_obj.email_address
                   ELSE email_obj.uni \o "@columbia.edu"
        final_reply == IF reply_text # PyNone THEN reply_text
                       ELSE email_obj.suggested_reply
        in_session == [email_obj EXCEPT !.suggested_reply = final_reply]
    IN  IF ~creds_valid(token)
        THEN [code |-> 400, row |-> email_obj, message |-> NoMessage]
        ELSE IF ~Truthy(email_obj.email_address) /\ ~Truthy(email_obj.uni)
        THEN [code |-> 400, row |-> email_obj, message |-> NoMessage]
        ELSE IF ~delivered
        THEN [code |-> 500, row |-> email_obj, message |-> NoMessage]
        ELSE [code |-> 200,
              row |-> [in_session EXCEPT !.status = "sent",
                                         !.approved_at = IF @ = PyNone THEN UtcNow ELSE @],
              message |-> gmail_message(token.email_address, to_addr,
                                        email_obj.subject, final_reply)]

\* POST /emails/{id}/send for a stored email; delivered is whether
\* send_email_via_gmail_api returned or raised
SendEmailReply ==
    /\ \E id \in DOMAIN emails, reply_text \in {PyNone, EditedReply}, delivered \in BOOLEAN :
        \E out \in {send_email_reply(emails[id], gmail_token, reply_text, delivered)} :
            /\ out.code = 200 => Len(outbox) <= MaxEmails
            /\ emails' = [emails EXCEPT ![id] = out.row]
            /\ outbox' = IF out.code = 200
                         THEN Append(outbox, [email_id |-> id, message |-> out.message])
                         ELSE outbox
            /\ http' = [handler |-> "send_email_reply", code |-> out.code,
                        email_id |-> id, reply_text |-> reply_text]
    /\ UNCHANGED <<email_settings, gmail_token, mailbox, results>>
    /\ UNCHANGED advisorVars
    /\ UNCHANGED threadVars
    /\ UNCHANGED <<blend, augmented>>

\* PATCH /emails/{id}
UpdateEmail ==
    /\ \E id \in DOMAIN emails, data \in UpdatePayloads :
        LET email_obj == emails[id]
            approved == IF /\ "status" \in DOMAIN data
                           /\ data.status \in {"auto", "sent"}
                           /\ email_obj.approved_at = PyNone
                        THEN [email_obj EXCEPT !.approved_at = UtcNow]
                        ELSE email_obj
        IN  emails' = [emails EXCEPT ![id] = Merge(approved, data)]
    /\ UNCHANGED <<email_settings, gmail_token, mailbox, outbox, results>>
    /\ http' = NoRequest
    /\ UNCHANGED advisorVars
    /\ UNCHANGED threadVars
    /\ UNCHANGED <<blend, augmented>>

NextDesk ==
    \/ NextApi
    \/ SendEmailReply
    \/ UpdateEmail

InitDesk == InitRank /\ kb = <<ArtDropClass, ArtWithdrawal>>

\* The backend over one knowledge base, with the advisors working on the
\* stored emails
SpecDesk == InitDesk /\ [][NextDesk]_vars

-----------------------------------------------------------------------------
(* Repeated syncs of a connected mailbox *)

\* Room for a second copy of each message
SyncRoom == MaxEmails + 1

SyncAgain == SyncEmailsWithin(SyncRoom)

\* After a completed OAuth flow, before any email
InitSync ==
    /\ kb = <<ArtDropClass, ArtWithdrawal>>
    /\ settings = ConfidenceSettings(60, 90, 5)
    /\ pc = "idle"
    /\ query = <<>>
    /\ tfidf = <<>>
    /\ ranked = <<>>
    /\ call = NoCall
    /\ response = NoResponse
    /\ emails = <<>>
    /\ email_settings = <<>>
    /\ gmail_token = Token(TRUE, GmailAddress)
    /\ mailbox = <<>>
    /\ outbox = <<>>
    /\ results = <<>>
    /\ http = NoRequest
    /\ threads = [t \in Threads |-> IdleThread]
    /\ heap = InitialHeap
    /\ sessions = [r \in Requests |-> IdleSession]
    /\ blend = NoBlend
    /\ augmented = NoAugment

NextSync ==
    \/ ReceiveMail
    \/ SyncAgain
    \/ UpdateEmailSettings
    \/ TokenExpires
    \/ GmailConnect

\* Gmail connected; messages arrive, syncs run, the settings change, the
\* token expires and is renewed
SpecSync == InitSync /\ [][NextSync]_vars

-----------------------------------------------------------------------------
(* The confidence blend of rank_articles over a grid of signals *)

InitBlend ==
    /\ kb = <<>>
    /\ settings = ConfidenceSettings(60, 90, 5)
    /\ pc = "idle"
    /\ query = <<>>
    /\ tfidf = <<>>
    /\ ranked = <<>>
    /\ call = NoCall
    /\ response = NoResponse
    /\ emails = <<>>
    /\ email_settings = <<>>
    /\ gmail_token = NoToken
    /\ mailbox = <<>>
    /\ outbox = <<>>
    /\ results = <<>>
    /\ http = NoRequest
    /\ threads = [t \in Threads |-> IdleThread]
    /\ heap = InitialHeap
    /\ sessions = [r \in Requests |-> IdleSession]
    /\ blend \in SignalGrid
    /\ augmented = NoAugment

\* Lines 216-236 for one article
BlendConfidence ==
    /\ blend.stage = "drawn"
    /\ blend' = [blend EXCEPT !.stage = "blended",
                              !.confidence = article_confidence(blend, blend.tfidf_score)]
    /\ UNCHANGED augmented
    /\ UNCHANGED advisorVars
    /\ UNCHANGED apiVars
    /\ UNCHANGED threadVars

NextBlend == BlendConfidence

SpecBlend == InitBlend /\ [][NextBlend]_vars

-----------------------------------------------------------------------------
(* augment_tokens over token sequences *)

\* Tokens with synonyms that are tokens too, a token with one synonym, and
\* a token that reads like a bigram
TokenAlphabet == {"drop", "withdraw", "course", "drop_withdraw"}

TokenSequences == UNION {[1..n -> TokenAlphabet] : n \in 0..MaxTokens}

InitAugment ==
    /\ kb = <<>>
    /\ settings = ConfidenceSettings(60, 90, 5)
    /\ pc = "idle"
    /\ query = <<>>
    /\ tfidf = <<>>
    /\ ranked = <<>>
    /\ call = NoCall
    /\ response = NoResponse
    /\ emails = <<>>
    /\ email_settings = <<>>
    /\ gmail_token = NoToken
    /\ mailbox = <<>>
    /\ outbox = <<>>
    /\ results = <<>>
    /\ http = NoRequest
    /\ threads = [t \in Threads |-> IdleThread]
    /\ heap = InitialHeap
    /\ sessions = [r \in Requests |-> IdleSession]
    /\ blend = NoBlend
    /\ augmented \in {[stage |-> "called", tokens |-> tokens, returned |-> <<>>] :
                        tokens \in TokenSequences}

\* augment_tokens(tokens) returns
AugmentTokens ==
    /\ augmented.stage = "called"
    /\ \E out \in augmentations(augmented.tokens) :
        augmented' = [augmented EXCEPT !.stage = "returned", !.returned = out]
    /\ UNCHANGED blend
    /\ UNCHANGED advisorVars
    /\ UNCHANGED apiVars
    /\ UNCHANGED threadVars

NextAugment == AugmentTokens

SpecAugment == InitAugment /\ [][NextAugment]_vars

-----------------------------------------------------------------------------
(* Concurrent calls of process_query on one advisor, statement by statement *)

\* Lines 246-247: the call copies the metadata argument
ThreadCall(t) ==
    /\ threads[t].pc = "idle"
    /\ \E q \in ThreadQueries, arg \in 0..Len(CallerObjects) :
        \E copy \in {dict_copy(heap, arg, t)} :
            /\ heap' = copy.heap
            /\ threads' = [threads EXCEPT ![t] =
                             [IdleThread EXCEPT !.pc = "copied", !.query = q,
                                                !.arg = arg, !.ref = copy.ref]]
    /\ UNCHANGED sessions
    /\ UNCHANGED advisorVars
    /\ UNCHANGED apiVars
    /\ UNCHANGED <<blend, augmented>>

\* Lines 248-255: the extracted facts are written into the working metadata
ThreadExtract(t) ==
    /\ threads[t].pc = "copied"
    /\ \E facts \in FactsPool :
        \E merged \in {merge_facts(heap[threads[t].ref], <<>>, facts,
                                   known_metadata_keys(kb))} :
            /\ heap' = [heap EXCEPT ![threads[t].ref] = merged.metadata]
            /\ threads' = [threads EXCEPT ![t].pc = "extracted",
                                          ![t].facts = facts,
                                          ![t].notes = merged.notes]
    /\ UNCHANGED sessions
    /\ UNCHANGED advisorVars
    /\ UNCHANGED apiVars
    /\ UNCHANGED <<blend, augmented>>

\* Line 256: matches = self.rank_articles(query)
ThreadRank(t) ==
    /\ threads[t].pc = "extracted"
    /\ \E scores \in UniformScores(kb) :
        threads' = [threads EXCEPT ![t].pc = "ranked",
                                   ![t].scores = scores,
                                   ![t].ranked = rank_articles(kb, threads[t].query, scores)]
    /\ UNCHANGED heap
    /\ UNCHANGED sessions
    /\ UNCHANGED advisorVars
    /\ UNCHANGED apiVars
    /\ UNCHANGED <<blend, augmented>>

\* Lines 257-329: the decision and the response, from the working metadata
ThreadDecide(t) ==
    /\ threads[t].pc = "ranked"
    /\ \E rounds_below \in lead_roundings(threads[t].ranked, settings) :
        threads' = [threads EXCEPT ![t].pc = "done",
                                   ![t].rounds_below = rounds_below,
                                   ![t].response =
                                       decide(kb, settings, threads[t].ranked,
                                              heap[threads[t].ref], threads[t].notes,
                                              ThreadEnv, rounds_below).response]
    /\ UNCHANGED heap
    /\ UNCHANGED sessions
    /\ UNCHANGED advisorVars
    /\ UNCHANGED apiVars
    /\ UNCHANGED <<blend, augmented>>

\* The call returns; its dict is released
ThreadReturn(t) ==
    /\ threads[t].pc = "done"
    /\ threads' = [threads EXCEPT ![t] = IdleThread]
    /\ heap' = [heap EXCEPT ![local(t)] = NoDict]
    /\ UNCHANGED sessions
    /\ UNCHANGED advisorVars
    /\ UNCHANGED apiVars
    /\ UNCHANGED <<blend, augmented>>

NextThreads ==
    \E t \in Threads :
        \/ ThreadCall(t)
        \/ ThreadExtract(t)
        \/ ThreadRank(t)
        \/ ThreadDecide(t)
        \/ ThreadReturn(t)

\* One advisor with the default settings, called from several threads
SpecThreads == InitRank /\ [][NextThreads]_vars

-----------------------------------------------------------------------------
(* Concurrent requests on the email_settings table, statement by statement *)

\* The handlers that call get_or_create_settings first
SettingsHandlers ==
    {"read_email_settings", "update_email_settings", "gmail_status", "sync_emails"}

\* A request of one of these handlers arrives: db = SessionLocal()
RequestStarts(r) ==
    /\ sessions[r].pc = "idle"
    /\ \E h \in SettingsHandlers :
        sessions' = [sessions EXCEPT ![r] = [IdleSession EXCEPT !.pc = "query",
                                                                 !.handler = h]]
    /\ UNCHANGED <<emails, email_settings, gmail_token, mailbox, outbox, results>>
    /\ http' = NoRequest
    /\ UNCHANGED <<threads, heap>>
    /\ UNCHANGED advisorVars
    /\ UNCHANGED <<blend, augmented>>

\* POST /emails/ingest, lines 546-582: the email is stored and committed; only
\* an email of status auto goes on to the settings
IngestStarts(r) ==
    /\ sessions[r].pc = "idle"
    /\ Len(emails) < MaxEmails
    /\ \E m \in SampleMail :
        \E result \in advise(m.body, PyOr(m.from_name, PyNone)) :
            LET status == email_status(result.confidence, CONFIDENCE_THRESHOLD)
                id == Len(emails) + 1
            IN  /\ emails' = Append(emails,
                        EmailORM(id, PyOr(m.from_name, PyNone), PyNone,
                                 PyOr(m.from_addr, PyNone), m.subject, m.body,
                                 result.confidence, status, result.body))
                /\ results' = Append(results, Advice(result))
                /\ sessions' = [sessions EXCEPT ![r] =
                        IF status = "auto"
                        THEN [IdleSession EXCEPT !.pc = "query",
                                                 !.handler = "ingest_email",
                                                 !.email_id = id]
                        ELSE IdleSession]
    /\ UNCHANGED <<email_settings, gmail_token, mailbox, outbox>>
    /\ http' = NoRequest
    /\ UNCHANGED <<threads, heap>>
    /\ UNCHANGED advisorVars
    /\ UNCHANGED <<blend, augmented>>

\* Line 267: settings = db.query(EmailSettingsORM).first()
SettingsQuery(r) ==
    /\ sessions[r].pc = "query"
    /\ sessions' = [sessions EXCEPT
                      ![r].row = IF email_settings = <<>> THEN 0 ELSE 1,
                      ![r].pc = IF email_settings = <<>> THEN "insert" ELSE "handle"]
    /\ UNCHANGED <<emails, email_settings, gmail_token, mailbox, outbox, results>>
    /\ http' = NoRequest
    /\ UNCHANGED <<threads, heap>>
    /\ UNCHANGED advisorVars
    /\ UNCHANGED <<blend, augmented>>

\* Lines 268-282: settings is None, so a row of defaults is added and committed
SettingsInsert(r) ==
    /\ sessions[r].pc = "insert"
    /\ email_settings' = Append(email_settings, get_or_create_settings(<<>>)[1])
    /\ sessions' = [sessions EXCEPT ![r].row = Len(email_settings) + 1,
                                    ![r].pc = "handle"]
    /\ UNCHANGED <<emails, gmail_token, mailbox, outbox, results>>
    /\ http' = NoRequest
    /\ UNCHANGED <<threads, heap>>
    /\ UNCHANGED advisorVars
    /\ UNCHANGED <<blend, augmented>>

\* GET /email-settings, lines 410-412: the row is returned
ReadEmailSettingsEnds(r) ==
    /\ sessions[r].pc = "handle" /\ sessions[r].handler = "read_email_settings"
    /\ sessions' = [sessions EXCEPT ![r] = IdleSession]
    /\ UNCHANGED <<emails, email_settings, gmail_token, mailbox, outbox, results>>
    /\ http' = NoRequest
    /\ UNCHANGED <<threads, heap>>
    /\ UNCHANGED advisorVars
    /\ UNCHANGED <<blend, augmented>>

\* POST /email-settings, lines 420-431: the fields of the payload are set on
\* the row this request holds
UpdateEmailSettingsEnds(r) ==
    /\ sessions[r].pc = "handle" /\ sessions[r].handler = "update_email_settings"
    /\ \E payload \in SettingsPayloads :
        LET row == email_settings[sessions[r].row]
        IN  email_settings' = [email_settings EXCEPT ![sessions[r].row] =
                [field \in DOMAIN row |->
                    IF field \in DOMAIN payload THEN payload[field] ELSE row[field]]]
    /\ sessions' = [sessions EXCEPT ![r] = IdleSession]
    /\ UNCHANGED <<emails, gmail_token, mailbox, outbox, results>>
    /\ http' = NoRequest
    /\ UNCHANGED <<threads, heap>>
    /\ UNCHANGED advisorVars
    /\ UNCHANGED <<blend, augmented>>

\* GET /gmail/status, lines 450-466: the row's address follows the connected
\* Gmail profile
GmailStatusEnds(r) ==
    /\ sessions[r].pc = "handle" /\ sessions[r].handler = "gmail_status"
    /\ LET row == email_settings[sessions[r].row]
           connected == creds_valid(gmail_token) /\ Truthy(gmail_token.email_address)
       IN  IF connected /\ row.email_address # gmail_token.email_address
           THEN email_settings' = [email_settings EXCEPT
                    ![sessions[r].row].email_address = gmail_token.email_address]
           ELSE UNCHANGED email_settings
    /\ sessions' = [sessions EXCEPT ![r] = IdleSession]
    /\ UNCHANGED <<emails, gmail_token, mailbox, outbox, results>>
    /\ http' = NoRequest
    /\ UNCHANGED <<threads, heap>>
    /\ UNCHANGED advisorVars
    /\ UNCHANGED <<blend, augmented>>

\* POST /emails/ingest, lines 584-602: the reply of the stored email is sent
\* if the row this request holds allows it
IngestEnds(r) ==
    /\ sessions[r].pc = "handle" /\ sessions[r].handler = "ingest_email"
    /\ LET row == email_settings[sessions[r].row]
           id == sessions[r].email_id
           email_obj == emails[id]
           reply == gmail_message(PyOr(gmail_token.email_address, row.email_address),
                                  email_obj.email_address, email_obj.subject,
                                  email_obj.suggested_reply)
       IN  IF /\ row.auto_send_enabled
              /\ Truthy(email_obj.email_address)
              /\ creds_valid(gmail_token)
           THEN \/ /\ outbox' = Append(outbox, [email_id |-> id, message |-> reply])
                   /\ emails' = [emails EXCEPT ![id].status = "sent",
                                               ![id].approved_at = UtcNow]
                \/ \* the send raised: printed, the row stays auto
                   UNCHANGED <<emails, outbox>>
           ELSE UNCHANGED <<emails, outbox>>
    /\ sessions' = [sessions EXCEPT ![r] = IdleSession]
    /\ UNCHANGED <<email_settings, gmail_token, mailbox, results>>
    /\ http' = NoRequest
    /\ UNCHANGED <<threads, heap>>
    /\ UNCHANGED advisorVars
    /\ UNCHANGED <<blend, augmented>>

\* POST /emails/sync, lines 623-767, with the row this request holds
SyncEmailsEnds(r) ==
    /\ sessions[r].pc = "handle" /\ sessions[r].handler = "sync_emails"
    /\ IF ~creds_valid(gmail_token)
       THEN /\ http' = [handler |-> "sync_emails", code |-> 400,
                        ingested |-> 0, auto_sent |-> 0]
            /\ UNCHANGED <<emails, email_settings, results, outbox, mailbox>>
       ELSE LET row == email_settings[sessions[r].row]
                threshold == IF row.auto_send_threshold # 0
                             THEN row.auto_send_threshold
                             ELSE CONFIDENCE_THRESHOLD
            IN  \E final \in sync_loop(SyncState(emails, results, outbox, mailbox),
                                       mailbox, row, gmail_token, threshold) :
                   /\ Len(final.emails) <= SyncRoom
                   /\ emails' = final.emails
                   /\ results' = final.results
                   /\ outbox' = final.outbox
                   /\ mailbox' = final.mailbox
                   /\ email_settings' = [email_settings EXCEPT
                            ![sessions[r].row].last_synced_at = UtcNow]
                   /\ http' = [handler |-> "sync_emails", code |-> 200,
                               ingested |-> final.ingested,
                               auto_sent |-> final.auto_sent]
    /\ sessions' = [sessions EXCEPT ![r] = IdleSession]
    /\ UNCHANGED gmail_token
    /\ UNCHANGED <<threads, heap>>
    /\ UNCHANGED advisorVars
    /\ UNCHANGED <<blend, augmented>>

NextSettings ==
    \/ \E r \in Requests :
        \/ RequestStarts(r)
        \/ IngestStarts(r)
        \/ SettingsQuery(r)
        \/ SettingsInsert(r)
        \/ ReadEmailSettingsEnds(r)
        \/ UpdateEmailSettingsEnds(r)
        \/ GmailStatusEnds(r)
        \/ IngestEnds(r)
        \/ SyncEmailsEnds(r)
    \/ GmailConnect

\* The deployed backend serving requests on its thread pool
SpecSettings == InitDesk /\ [][NextSettings]_vars

-----------------------------------------------------------------------------
(* Further properties of process_query *)

\* C11: with an empty knowledge base every query gets the fallback response
\* with confidence 0.0, no ranked match, no article id, decision needs_review
\* and at least one reason.
C11_EmptyKnowledgeBaseFallsBack ==
    (Responded /\ kb = <<>>) =>
        /\ IsFallback(response)
        /\ response.confidence = 0
        /\ response.ranked_matches = <<>>
        /\ response.reasons # <<>>

C11_Witness ==
    /\ Responded
    /\ kb = <<>>
    /\ query # <<>>
    /\ call.notes = <<>>
    /\ call.env.retriever # "raises"
    /\ HasReason(response, "Unable to determine an appropriate template.")

\* The response of the same call had the retriever returned no reference
WithEmptyRetrieval ==
    decide(kb, settings, ranked, call.working, call.notes,
           Env("returns", <<>>, call.env.lookup_fails), call.rounds_below).response

\* C12: when the retriever raises, process_query still returns a response on
\* every path: the reason "Reference retrieval failed" is appended, references
\* is empty, and decision, confidence and article_id are those of the same
\* call with a retriever that returns no reference.
C12_RetrieverFailureIsAbsorbed ==
    (Responded /\ call.env.retriever = "raises") =>
        /\ response.references = <<>>
        /\ HasReason(response, "Reference retrieval failed: ")
        /\ response.decision = WithEmptyRetrieval.decision
        /\ response.confidence = WithEmptyRetrieval.confidence
        /\ response.article_id = WithEmptyRetrieval.article_id
        /\ response.subject = WithEmptyRetrieval.subject
        /\ response.body = WithEmptyRetrieval.body

C12_Witness ==
    /\ Responded
    /\ call.env.retriever = "raises"
    /\ call.path = "rendered"
    /\ response.decision = "auto_send"

\* The last Len(notes) entries of the reasons are the notes, in order
EndsWithNotes(reasons, notes) ==
    /\ Len(notes) <= Len(reasons)
    /\ SubSeq(reasons, Len(reasons) - Len(notes) + 1, Len(reasons)) = notes

\* C13: on every path of process_query the metadata-extraction notes are the
\* last entries of the returned reasons, in extraction order; no other reason
\* follows them.
C13_NotesAreLast ==
    Responded => EndsWithNotes(response.reasons, call.notes)

\* The facts the stated rule accepts: key known and not supplied by the caller
FactsOutsideCallerKeys ==
    SelectSeq(call.facts,
              LAMBDA fact : /\ fact.key \in known_metadata_keys(kb)
                            /\ fact.key \notin DOMAIN call.metadata)

\* C14: an extracted fact is merged only if its key is known and is not
\* already present in the caller's metadata; a key the caller supplied keeps
\* the caller's value, and only the accepted facts contribute their reason.
C14_CallerValuesWin ==
    Responded =>
        /\ \A k \in DOMAIN call.metadata : call.working[k] = call.metadata[k]
        /\ DOMAIN call.working =
             (DOMAIN call.metadata)
             \cup {FactsOutsideCallerKeys[i].key : i \in DOMAIN FactsOutsideCallerKeys}
        /\ call.notes = [i \in DOMAIN FactsOutsideCallerKeys |->
                           Reason(FactsOutsideCallerKeys[i].reason, "")]

-----------------------------------------------------------------------------
(* Concurrent and repeated calls *)

\* What the call of thread t returns when it runs alone, from its arguments
\* and the outcomes of its collaborators
Sequential(t) ==
    process_query(kb, settings, threads[t].query, threads[t].scores,
                  CallerArg(threads[t].arg), threads[t].facts, ThreadEnv,
                  threads[t].rounds_below).response

\* C15: under any interleaving of the statements of concurrent process_query
\* calls on one advisor, the callers' metadata mappings keep their contents
\* and every finished call has returned what it returns when run alone.
C15_InterleavingIsSequential ==
    /\ \A i \in DOMAIN CallerObjects : heap[i] = CallerObjects[i]
    /\ \A t \in Threads :
         threads[t].pc = "done" => threads[t].response = Sequential(t)

C15_Witness ==
    /\ threads[1].pc = "done" /\ threads[1].notes # <<>>
    /\ threads[1].response.decision = "auto_send"
    /\ threads[2].pc = "extracted" /\ threads[2].notes # <<>>
    /\ threads[1].arg = 1 /\ threads[2].arg = 1
    /\ threads[1].query # threads[2].query

\* Two calls with the same arguments whose collaborators (extractor,
\* vectorizer, floating-point unit) gave the same outcomes
SameCall(t, u) ==
    /\ threads[t].query = threads[u].query
    /\ CallerArg(threads[t].arg) = CallerArg(threads[u].arg)
    /\ threads[t].facts = threads[u].facts
    /\ threads[t].scores = threads[u].scores
    /\ threads[t].rounds_below = threads[u].rounds_below

\* C16: two process_query calls on the same advisor with identical query and
\* metadata, and collaborators answering alike, return responses equal in
\* every field.
C16_SameCallSameResponse ==
    \A t \in Threads, u \in Threads :
        (threads[t].pc = "done" /\ threads[u].pc = "done" /\ SameCall(t, u))
            => threads[t].response = threads[u].response

C16_Witness ==
    /\ threads[1].pc = "done" /\ threads[2].pc = "done" /\ SameCall(1, 2)
    /\ threads[1].arg = 1 /\ threads[2].arg = 1
    /\ threads[1].notes # <<>>
    /\ threads[1].response.decision = "auto_send"
    /\ threads[2].response.ranked_matches # <<>>

-----------------------------------------------------------------------------
(* Rendering *)

RenderedArticle == ArticleOf(response.article_id)

PlaceholderKeys ==
    TemplateKeys(RenderedArticle.subject) \cup TemplateKeys(RenderedArticle.response_template)

DefaultKeys == (DOMAIN metadata_defaults) \cup (DOMAIN RenderedArticle.metadata)

\* C17: in a render, a placeholder key of the working metadata yields its
\* value and enters neither tracking set; a key found only in the defaults
\* yields the default (the article's before the global one) and is recorded
\* as used-default; a key found nowhere yields the literal {key} and is
\* recorded as missing.  The two sets are disjoint and hold nothing of an
\* earlier call.
C17_ThreeWayLookup ==
    (Responded /\ call.path = "rendered") =>
        /\ call.used_default_keys =
              (PlaceholderKeys \cap DefaultKeys) \ (DOMAIN call.working)
        /\ call.missing_keys =
              PlaceholderKeys \ (DefaultKeys \cup DOMAIN call.working)
        /\ call.used_default_keys \cap call.missing_keys = {}
        /\ response.subject =
              ExpectedText(RenderedArticle.subject, RenderedArticle, call.working)
        /\ response.references = <<>> =>
              response.body = ExpectedText(RenderedArticle.response_template,
                                           RenderedArticle, call.working)

C17_Witness ==
    /\ Responded /\ call.path = "rendered"
    /\ response.references = <<>>
    /\ "student_name" \in DOMAIN call.working
    /\ "student_name" \in PlaceholderKeys \cap DefaultKeys
    /\ {"term", "office"} \subseteq call.used_default_keys
    /\ call.missing_keys = {"advisor_name"}

-----------------------------------------------------------------------------
(* Construction *)

\* C18: a knowledge base with a structurally invalid subject or body template
\* never gets past construction, and process_query on a constructed advisor
\* never raises because of a template.
C18_InvalidTemplateFailsConstruction ==
    /\ HasInvalidTemplate(kb) => pc = "new"
    /\ pc # "raised"

-----------------------------------------------------------------------------
(* The confidence blend against the reference of the written policy *)

coverage_signal == (blend.best_query_coverage + blend.best_utterance_coverage) \div 2

\* The weighted sum, multiplied by 0.6 under the low-signal penalty
reference_base ==
    LET base == (5 * (blend.best_utterance_similarity \div 10))
                + (2 * (coverage_signal \div 10))
                + (2 * (blend.tfidf_score \div 10))
                + (blend.category_overlap \div 10)
    IN  IF coverage_signal < Pct(15) /\ blend.best_utterance_similarity < Pct(20)
        THEN 6 * (base \div 10) ELSE base

\* The floors whose predicates hold, each evaluated on its own
matching_floors ==
    (IF blend.best_utterance_similarity >= Pct(85) THEN {Pct(92)} ELSE {})
    \cup (IF blend.best_utterance_similarity >= Pct(70) THEN {Pct(85)} ELSE {})
    \cup (IF blend.best_utterance_similarity >= Pct(55) /\ coverage_signal >= Pct(35)
          THEN {Pct(78)} ELSE {})
    \cup (IF /\ coverage_signal >= Pct(55)
             /\ blend.category_overlap >= Pct(10)
             /\ blend.best_utterance_similarity >= Pct(50)
          THEN {Pct(85)} ELSE {})

reference_confidence ==
    MaxOf({Min2(Max2(reference_base, Pct(5)), Pct(97))} \cup matching_floors)

\* C19: for a non-exact match the confidence of rank_articles equals the
\* weighted sum, penalised, clamped to [0.05, 0.97] and raised to the highest
\* of the floors whose predicates hold when each is evaluated independently.
C19_ChainEqualsAllFloors ==
    (blend.stage = "blended" /\ ~blend.exact_match) =>
        blend.confidence = reference_confidence

C19_Witness ==
    /\ blend.stage = "blended" /\ ~blend.exact_match
    /\ Cardinality(matching_floors) = 3
    /\ blend.confidence = Pct(92)
    /\ reference_base < Pct(92)

-----------------------------------------------------------------------------
(* Sending *)

\* The stored setting: no row yet counts as off, the value it is created with
AutoSendStored == email_settings # <<>> /\ email_settings[1].auto_send_enabled

SentIds(rows) == {i \in DOMAIN rows : rows[i].status = "sent"}

\* C20: while the stored auto_send_enabled is false, a step of the backend
\* that is not an explicit send_email_reply or update_email request sends
\* nothing and marks no email sent.
C20_NoSendWhileDisabled ==
    [][(~AutoSendStored /\ ~SendEmailReply /\ ~UpdateEmail) =>
          (outbox' = outbox /\ SentIds(emails') = SentIds(emails))]_vars

C20_Witness ==
    /\ email_settings # <<>> /\ ~AutoSendStored
    /\ creds_valid(gmail_token)
    /\ \E i \in DOMAIN emails : /\ emails[i].status = "auto"
                                 /\ Truthy(emails[i].email_address)
                                 /\ emails[i].approved_at = PyNone
    /\ outbox = <<>>

-----------------------------------------------------------------------------
(* Failed deliveries *)

\* The rows the step stored
NewIds == (DOMAIN emails') \ (DOMAIN emails)

\* The rows for which the step handed a message to Gmail
DeliveredIds == {outbox'[j].email_id : j \in (DOMAIN outbox') \ (DOMAIN outbox)}

SendFailed == http.handler = "send_email_reply" /\ http.code = 500

\* C21: a send_email_reply request that ends in an error leaves every stored
\* email as it was (status, approved_at and suggested_reply, also when a
\* reply_text was given) and sends nothing; an email that ingest_email or
\* sync_emails stores without delivering a reply is not marked sent.
C21_FailedDeliveryChangesNothing ==
    [][/\ (http'.handler = "send_email_reply" /\ http'.code # 200) =>
             (emails' = emails /\ outbox' = outbox)
       /\ \A i \in NewIds : (emails'[i].status = "sent") <=> (i \in DeliveredIds)]_vars

C21_Witness ==
    /\ SendFailed
    /\ http.reply_text = EditedReply
    /\ emails[http.email_id].status = "auto"
    /\ emails[http.email_id].approved_at = PyNone
    /\ emails[http.email_id].suggested_reply # EditedReply
    /\ AutoSendStored
    /\ outbox = <<>>

-----------------------------------------------------------------------------
(* Syncing *)

\* C22: no two emails stored by sync_emails have the same subject and the
\* same body, whatever the subject of the messages.
C22_NoDuplicateRows ==
    \A i, j \in DOMAIN emails :
        (emails[i].subject = emails[j].subject /\ emails[i].body = emails[j].body)
            => i = j

Synced == http'.handler = "sync_emails"

\* What a sync that returns leaves behind
SyncCompleted ==
    /\ creds_valid(gmail_token)
    /\ mailbox' = <<>>
    /\ http'.ingested = Cardinality(NewIds)
    /\ http'.auto_sent <= http'.ingested
    /\ http'.auto_sent = Cardinality({i \in NewIds : emails'[i].status = "sent"})
    /\ \A i \in DOMAIN emails : emails'[i] = emails[i]
    /\ email_settings'[1].last_synced_at = UtcNow

SyncRefused ==
    /\ ~creds_valid(gmail_token)
    /\ emails' = emails
    /\ outbox' = outbox
    /\ mailbox' = mailbox

\* C23 as claimed: a sync that returns has marked every fetched message
\* read, reports as ingested the rows it stored and as auto_sent those of
\* them it marked sent, and has set last_synced_at; with missing or invalid
\* credentials it fails before storing or modifying anything.
C23_SyncReturnsOrTouchesNothing ==
    [][Synced =>
         /\ http'.code \in {200, 400}
         /\ http'.code = 200 => SyncCompleted
         /\ http'.code = 400 => (SyncRefused /\ email_settings' = email_settings)]_vars

\* C23 as amended: ... with missing or invalid credentials it fails without
\* fetching, storing an email, sending or marking a message, and leaves the
\* settings every handler reads as they were; the settings row itself is
\* created with its default values if it did not exist.
C23_SyncReturnsOrKeepsSettings ==
    [][Synced =>
         /\ http'.code \in {200, 400}
         /\ http'.code = 200 => SyncCompleted
         /\ http'.code = 400 =>
               /\ SyncRefused
               /\ get_or_create_settings(email_settings')
                    = get_or_create_settings(email_settings)]_vars

C23_Witness ==
    /\ http.handler = "sync_emails" /\ http.code = 200
    /\ http.ingested = 1 /\ http.auto_sent = 1
    /\ Len(emails) = 2 /\ emails[2].status = "sent" /\ emails[1].status = "auto"
    /\ mailbox = <<>>

-----------------------------------------------------------------------------
(* Classification *)

\* The threshold the settings hold when the request arrives
StoredThreshold == get_or_create_settings(email_settings)[1].auto_send_threshold

\* C24: an email is stored with status auto (and perhaps sent at once)
\* exactly when the advisor's confidence reaches the stored
\* auto_send_threshold, and with status review otherwise.
C24_StoredThresholdClassifies ==
    [][\A i \in NewIds :
          (emails'[i].status # "review") <=> (emails'[i].confidence >= StoredThreshold)]_vars

-----------------------------------------------------------------------------
(* Approval times *)

\* C25: every stored email whose status is sent has an approved_at, and an
\* approved_at once set is never changed or cleared.
C25_SentIsApproved ==
    /\ [](\A i \in DOMAIN emails :
            emails[i].status = "sent" => emails[i].approved_at # PyNone)
    /\ [][\A i \in DOMAIN emails :
            emails[i].approved_at # PyNone => emails'[i].approved_at = emails[i].approved_at]_vars

-----------------------------------------------------------------------------
(* The settings row *)

\* C26: under any interleaving of requests that call get_or_create_settings,
\* the email_settings table has at most one row, so every request in flight
\* holds the same row.
C26_OneSettingsRow ==
    /\ Len(email_settings) <= 1
    /\ \A r, q \in Requests :
         (sessions[r].pc = "handle" /\ sessions[q].pc = "handle")
            => sessions[r].row = sessions[q].row

-----------------------------------------------------------------------------
(* A query that is an utterance *)

\* The query text is, character for character, an utterance of the article
IdenticalToUtterance(article, q) ==
    \E i \in DOMAIN article.utterances : article.utterances[i] = q

\* C27: a query whose text is identical to an utterance of an article gives
\* that article confidence 1.0, whatever the utterance: with a sentence
\* terminator in the middle, or of stopwords only.
C27_IdenticalTextIsCertain ==
    Ranked =>
        \A i \in DOMAIN ranked :
            IdenticalToUtterance(ArticleOf(ranked[i].article_id), query) =>
                ranked[i].confidence = Unit

-----------------------------------------------------------------------------
(* The augmented token list *)

\* The distinct elements of a sequence, in the order of their first occurrence
FirstOccurrences(seq) ==
    LET firsts == {i \in DOMAIN seq : \A j \in 1..(i - 1) : seq[j] # seq[i]}
    IN  [k \in 1..Cardinality(firsts) |->
            seq[CHOOSE i \in firsts : Cardinality({j \in firsts : j < i}) = k - 1]]

DuplicateFree(seq) == \A i, j \in DOMAIN seq : seq[i] = seq[j] => i = j

\* The mapped synonyms of the tokens that are not tokens themselves
NewSynonyms(tokens) ==
    UNION {TOKEN_SYNONYMS(tokens[i]) : i \in DOMAIN tokens} \ Range(tokens)

\* The left_right bigrams of the consecutive pairs that are neither a token
\* nor a synonym, each once, in the order of the pairs
NewBigrams(tokens) ==
    SelectSeq(FirstOccurrences([i \in 1..(Len(tokens) - 1) |->
                                   tokens[i] \o "_" \o tokens[i + 1]]),
              LAMBDA b : b \notin Range(tokens) \cup NewSynonyms(tokens))

\* C28: augment_tokens returns a duplicate-free list: the distinct input
\* tokens in first-occurrence order, then the mapped synonyms not already
\* present, then the bigrams of the consecutive pairs not already present;
\* every input token is in it, and an empty input gives an empty list.
C28_AugmentedListShape ==
    augmented.stage = "returned" =>
        LET tokens == augmented.tokens
            out == augmented.returned
            n == Len(FirstOccurrences(tokens))
            m == n + Cardinality(NewSynonyms(tokens))
        IN  /\ DuplicateFree(out)
            /\ Len(out) = m + Len(NewBigrams(tokens))
            /\ SubSeq(out, 1, n) = FirstOccurrences(tokens)
            /\ Range(SubSeq(out, n + 1, m)) = NewSynonyms(tokens)
            /\ SubSeq(out, m + 1, Len(out)) = NewBigrams(tokens)
            /\ Range(tokens) \subseteq Range(out)
            /\ (tokens = <<>> => out = <<>>)

C28_Witness ==
    /\ augmented.stage = "returned"
    /\ augmented.tokens = <<"drop", "withdraw", "drop", "drop_withdraw">>
    /\ augmented.returned = <<"drop", "withdraw", "drop_withdraw", "remove", "withdrawal",
                              "withdraw_drop", "drop_drop_withdraw">>


====
